---- MODULE Spec2Model ----
(***************************************************************************)
(* A model of liquidgecka/testlib: the deep-equality engine T.deepEqual    *)
(* and its facade (T.Equal, T.EqualWithIgnores, T.NotEqual); the test      *)
(* scope with its finalizers, the temporary files and directories, the     *)
(* process-wide root directory with its clean-up process; and the polling  *)
(* helper T.TryUntil.                                                      *)
(*                                                                         *)
(* Go values are modelled as reflect.Value sees them: a type name, an      *)
(* address when the value is addressable, the read-only flag that reflect  *)
(* sets on values reached through unexported struct fields, and the        *)
(* content.  Pointers, slices and maps refer to a fixed memory (Mem,       *)
(* MapContent) that holds the objects the comparisons are run on.          *)
(***************************************************************************)
EXTENDS Integers, Sequences, FiniteSets, TLC

\* ----------------------------------------------------------------- bounds

\* Longest Go string (in bytes) drawn as a top-level argument.
MaxStrLen == 2

\* Deepest nesting of deepEqual calls the goroutine stack is taken to hold;
\* a call nested deeper than this is a stack exhaustion (the Go runtime
\* kills the process when the stack limit is hit).
MaxDepth == 12

\* ------------------------------------------------------------------ types

\* reflect.Kind of a type, by the type's name (as %s prints reflect.Type).
KindOf(t) ==
    CASE t = "bool" -> "Bool"
      [] t = "int" -> "Int"
      [] t = "uint" -> "Uint"
      [] t = "float64" -> "Float64"
      [] t = "complex128" -> "Complex128"
      [] t = "string" -> "String"
      [] t = "func()" -> "Func"
      [] t = "chan bool" -> "Chan"
      [] t = "interface {}" -> "Interface"
      [] t \in {"*string", "*int", "*interface {}",
                "*testlib.testEqualCustomNode", "*testlib.testObject",
                "*os.File"} -> "Ptr"
      [] t \in {"testlib.testEqualCustomNode", "testlib.testObject",
                "testlib.testEqualCustomStruct", "testlib.sliceHolder",
                "testlib.chanHolder"} -> "Struct"
      [] t \in {"map[string]int", "testlib.selfMap"} -> "Map"
      [] t = "[]int" -> "Slice"
      [] t \in {"[1]int", "[2]int"} -> "Array"
      [] OTHER -> "Invalid"

\* Element type of a pointer, slice, array or map type.
ElemOf(t) ==
    CASE t = "*string" -> "string"
      [] t = "*int" -> "int"
      [] t = "*interface {}" -> "interface {}"
      [] t = "*testlib.testEqualCustomNode" -> "testlib.testEqualCustomNode"
      [] t = "*testlib.testObject" -> "testlib.testObject"
      [] t = "map[string]int" -> "int"
      [] t = "testlib.selfMap" -> "testlib.selfMap"
      [] t \in {"[]int", "[1]int", "[2]int"} -> "int"
      [] OTHER -> ""

\* Declared fields of a struct type, in declaration order.
\*   testEqualCustomStruct, testEqualCustomNode: equal_test.go
\*   testObject: the struct of TestEqualWithIgnores
\*   sliceHolder: type sliceHolder struct{ items []int }  (an input type)
\*   chanHolder:  type chanHolder struct{ Ch chan bool }   (an input type)
FieldsOf(t) ==
    CASE t = "testlib.testEqualCustomStruct" ->
            << [name |-> "Field1", typ |-> "string", exported |-> TRUE],
               [name |-> "Field2", typ |-> "string", exported |-> TRUE] >>
      [] t = "testlib.testEqualCustomNode" ->
            << [name |-> "value", typ |-> "string", exported |-> FALSE],
               [name |-> "next", typ |-> "*testlib.testEqualCustomNode",
                exported |-> FALSE] >>
      [] t = "testlib.testObject" ->
            << [name |-> "str", typ |-> "string", exported |-> FALSE],
               [name |-> "link1", typ |-> "*testlib.testObject", exported |-> FALSE],
               [name |-> "link2", typ |-> "*testlib.testObject", exported |-> FALSE] >>
      [] t = "testlib.sliceHolder" ->
            << [name |-> "items", typ |-> "[]int", exported |-> FALSE] >>
      [] t = "testlib.chanHolder" ->
            << [name |-> "Ch", typ |-> "chan bool", exported |-> TRUE] >>
      [] OTHER -> << >>

\* Length of an array type.
ArrayLen(t) == CASE t = "[1]int" -> 1 [] t = "[2]int" -> 2 [] OTHER -> 0

\* Size of a value of type t in abstract words: what decides the addresses
\* of struct fields and of array and slice elements.
RECURSIVE SizeOf(_)
RECURSIVE SumSizes(_, _)
SumSizes(fields, n) ==
    IF n = 0 THEN 0 ELSE SumSizes(fields, n - 1) + SizeOf(fields[n].typ)

SizeOf(t) ==
    CASE KindOf(t) = "Struct" -> SumSizes(FieldsOf(t), Len(FieldsOf(t)))
      [] KindOf(t) = "Array" -> ArrayLen(t) * SizeOf(ElemOf(t))
      [] OTHER -> 1

\* Offset of the i-th field (1-based) from the start of its struct.
FieldOffset(t, i) == SumSizes(FieldsOf(t), i - 1)

\* ----------------------------------------------------------------- memory

\* Bytes Go strings are made of here: 97 is 'a'; 195 and 169 are the two
\* bytes of the UTF-8 encoding of U+00E9, a lead and a continuation byte.
Alphabet == {97, 195, 169}

StrA == << 97 >>
StrB == << 97, 97 >>
NilPtr == 0
NilIface == [typ |-> "", v |-> 0]
Boxed(t, v) == [typ |-> t, v |-> v]
Float(f) == [nan |-> FALSE, f |-> f]
NaN == [nan |-> TRUE, f |-> 0]
SliceV(base, len) == [base |-> base, len |-> len]
\* A channel: its identity (0 for the nil channel), its capacity and the
\* values queued in its buffer.
ChanWith(id, cap, buf) == [id |-> id, cap |-> cap, buf |-> buf]
ChanV(id, cap) == ChanWith(id, cap, << >>)

\* The objects in memory, by address: the variables the test fixtures take
\* the address of, and the backing arrays of the slices.
Mem(addr) ==
    CASE \* sCircle1, sCircle2: one node each, next pointing to itself
         addr = 16 -> Boxed("testlib.testEqualCustomNode", << StrA, 16 >>)
      [] addr = 32 -> Boxed("testlib.testEqualCustomNode", << StrA, 32 >>)
         \* dCircle1: "a" -> "b" -> back
      [] addr = 48 -> Boxed("testlib.testEqualCustomNode", << StrA, 64 >>)
      [] addr = 64 -> Boxed("testlib.testEqualCustomNode", << StrB, 48 >>)
         \* two 2-node cycles with equal data in every node
      [] addr = 80 -> Boxed("testlib.testEqualCustomNode", << StrA, 96 >>)
      [] addr = 96 -> Boxed("testlib.testEqualCustomNode", << StrA, 80 >>)
      [] addr = 112 -> Boxed("testlib.testEqualCustomNode", << StrA, 128 >>)
      [] addr = 128 -> Boxed("testlib.testEqualCustomNode", << StrA, 112 >>)
         \* TestEqualWithIgnores: have and want
      [] addr = 144 -> Boxed("testlib.testObject", << StrA, 160, 176 >>)
      [] addr = 160 -> Boxed("testlib.testObject", << StrA, NilPtr, NilPtr >>)
      [] addr = 176 -> Boxed("testlib.testObject", << StrA, NilPtr, NilPtr >>)
      [] addr = 192 -> Boxed("testlib.testObject", << StrA, 208, 224 >>)
      [] addr = 208 -> Boxed("testlib.testObject", << StrA, NilPtr, NilPtr >>)
      [] addr = 224 -> Boxed("testlib.testObject", << StrB, NilPtr, NilPtr >>)
         \* as above, but link1 and link2 point to the same object
      [] addr = 240 -> Boxed("testlib.testObject", << StrA, 256, 256 >>)
      [] addr = 256 -> Boxed("testlib.testObject", << StrA, NilPtr, NilPtr >>)
      [] addr = 272 -> Boxed("testlib.testObject", << StrA, 288, 288 >>)
      [] addr = 288 -> Boxed("testlib.testObject", << StrB, NilPtr, NilPtr >>)
         \* backing arrays of the []int slices
      [] addr = 320 -> Boxed("[2]int", << 0, 1 >>)
      [] addr = 336 -> Boxed("[2]int", << 0, 1 >>)
      [] addr = 352 -> Boxed("[1]int", << 0 >>)
      [] addr = 368 -> Boxed("[2]int", << 0, 2 >>)
         \* sInterface1, sInterface2, dInterface1, dInterface2
      [] addr = 384 -> Boxed("interface {}", Boxed("string", StrA))
      [] addr = 400 -> Boxed("interface {}", Boxed("string", StrA))
      [] addr = 416 -> Boxed("interface {}", Boxed("string", StrB))
      [] addr = 432 -> Boxed("interface {}", NilIface)
         \* sString1, sString2, dString1
      [] addr = 448 -> Boxed("string", StrA)
      [] addr = 464 -> Boxed("string", StrA)
      [] addr = 480 -> Boxed("string", StrB)

\* The maps, by identity: keys to element contents.  Maps 20 and 21 are of
\*   type selfMap map[string]selfMap
\* and each holds itself under the key "k".
MapContent(id) ==
    CASE id = 10 -> ("a" :> 1) @@ ("b" :> 2)
      [] id = 11 -> ("b" :> 2) @@ ("a" :> 1)
      [] id = 12 -> ("a" :> 1)
      [] id = 13 -> ("a" :> 1) @@ ("b" :> 3)
      [] id = 14 -> ("a" :> 1) @@ ("c" :> 2)
      [] id = 20 -> ("k" :> 20)
      [] id = 21 -> ("k" :> 21)
      [] OTHER -> << >>

\* The values handed to Equal / NotEqual as interface{} arguments, other
\* than strings.  An interface{} is its dynamic type and content; the nil
\* interface has no dynamic type.
FixedArgs ==
    << NilIface,                                          \*  1 nil
       Boxed("*string", NilPtr),                          \*  2 nilStringPtr
       Boxed("*int", NilPtr),                             \*  3 a nil *int
       Boxed("*string", 448),                             \*  4 &sString1
       Boxed("*string", 464),                             \*  5 &sString2
       Boxed("*string", 480),                             \*  6 &dString1
       Boxed("int", 1),                                   \*  7
       Boxed("int", 2),                                   \*  8
       Boxed("uint", 1),                                  \*  9
       Boxed("bool", TRUE),                               \* 10
       Boxed("bool", FALSE),                              \* 11
       Boxed("float64", Float(1)),                        \* 12
       Boxed("float64", NaN),                             \* 13
       Boxed("complex128", 1),                            \* 14
       Boxed("complex128", 2),                            \* 15
       Boxed("*testlib.testEqualCustomNode", 16),         \* 16 sCircle1
       Boxed("*testlib.testEqualCustomNode", 32),         \* 17 sCircle2
       Boxed("*testlib.testEqualCustomNode", 48),         \* 18 dCircle1
       Boxed("*testlib.testEqualCustomNode", 80),         \* 19
       Boxed("*testlib.testEqualCustomNode", 112),        \* 20
       Boxed("*testlib.testObject", 144),                 \* 21 have
       Boxed("*testlib.testObject", 192),                 \* 22 want
       Boxed("*testlib.testObject", 240),                 \* 23
       Boxed("*testlib.testObject", 272),                 \* 24
       Boxed("func()", 1),                                \* 25 sFunc1
       Boxed("func()", 2),                                \* 26 another func
       Boxed("func()", 0),                                \* 27 dFunc1 (nil)
       Boxed("chan bool", ChanV(1, 10)),                  \* 28 sChan1
       Boxed("chan bool", ChanV(2, 10)),                  \* 29 sChan2
       Boxed("chan bool", ChanV(3, 100)),                 \* 30 dChan2
       Boxed("chan bool", ChanV(0, 0)),                   \* 31 a nil channel
       Boxed("map[string]int", 10),                       \* 32
       Boxed("map[string]int", 11),                       \* 33
       Boxed("map[string]int", 12),                       \* 34
       Boxed("map[string]int", 13),                       \* 35
       Boxed("map[string]int", 14),                       \* 36
       Boxed("map[string]int", 0),                        \* 37 a nil map
       Boxed("testlib.selfMap", 20),                      \* 38
       Boxed("testlib.selfMap", 21),                      \* 39
       Boxed("[]int", SliceV(320, 2)),                    \* 40
       Boxed("[]int", SliceV(336, 2)),                    \* 41
       Boxed("[]int", SliceV(352, 1)),                    \* 42
       Boxed("[]int", SliceV(368, 2)),                    \* 43
       Boxed("[]int", SliceV(0, 0)),                      \* 44 a nil slice
       Boxed("[2]int", << 0, 1 >>),                       \* 45
       Boxed("[2]int", << 0, 2 >>),                       \* 46
       Boxed("[1]int", << 0 >>),                          \* 47
       Boxed("testlib.testEqualCustomStruct", << StrA, StrB >>),   \* 48 sCust1
       Boxed("testlib.testEqualCustomStruct", << StrA, StrA >>),   \* 49 dCust1
       Boxed("testlib.sliceHolder", << SliceV(0, 0) >>),           \* 50
       Boxed("testlib.sliceHolder", << SliceV(352, 1) >>),         \* 51
       Boxed("*interface {}", 384),                       \* 52 &sInterface1
       Boxed("*interface {}", 400),                       \* 53 &sInterface2
       Boxed("*interface {}", 416),                       \* 54 &dInterface1
       Boxed("*interface {}", 432),                       \* 55 &dInterface2
       Boxed("chan bool", ChanV(4, 0)),                   \* 56 make(chan bool)
       Boxed("chan bool", ChanWith(5, 10, << TRUE >>)),   \* 57 cap 10, one queued
       Boxed("testlib.chanHolder", << ChanV(0, 0) >>),    \* 58 nil channel inside
       Boxed("testlib.chanHolder", << ChanV(4, 0) >>),    \* 59
       Boxed("testlib.chanHolder", << ChanV(1, 10) >>),   \* 60
       Boxed("testlib.chanHolder", << ChanWith(5, 10, << TRUE >>) >>),  \* 61
       Boxed("testlib.chanHolder", << ChanV(3, 100) >>)   \* 62
    >>

\* Every Go string of at most MaxStrLen bytes over the alphabet.
AllStrings == UNION { [1..n -> Alphabet] : n \in 0..MaxStrLen }

\* The ignore lists handed to EqualWithIgnores.
IgnoreLists ==
    { << >>, << "link2.str" >>, << "link1.str" >>, << "link2" >> }

\* The ignore lists handed to it with two maps besides: the element under
\* the key "b" of a top-level map, written ["b"].
MapIgnoreLists == { << "[\"b\"]" >> }

IgnoreListsFor(h, w) ==
    IgnoreLists \cup (IF h.typ = "map[string]int" /\ w.typ = "map[string]int"
                      THEN MapIgnoreLists ELSE {})

\* ---------------------------------------------------------------- reflect

\* The zero reflect.Value: what reflect.ValueOf(nil), Elem() of a nil
\* pointer or interface and MapIndex of a missing key return.
Invalid == [valid |-> FALSE, typ |-> "", addr |-> 0, ro |-> FALSE, v |-> 0]

Val(t, addr, ro, v) == [valid |-> TRUE, typ |-> t, addr |-> addr, ro |-> ro, v |-> v]

\* reflect.ValueOf(x): never addressable.
ValueOf(x) == IF x.typ = "" THEN Invalid ELSE Val(x.typ, 0, FALSE, x.v)

CanAddr(val) == val.addr # 0

\* reflect.Value.IsNil, defined on chan, func, interface, map, ptr, slice.
IsNil(val) ==
    CASE KindOf(val.typ) = "Chan" -> val.v.id = 0
      [] KindOf(val.typ) = "Func" -> val.v = 0
      [] KindOf(val.typ) = "Interface" -> val.v.typ = ""
      [] KindOf(val.typ) = "Map" -> val.v = 0
      [] KindOf(val.typ) = "Ptr" -> val.v = 0
      [] KindOf(val.typ) = "Slice" -> val.v.base = 0

\* reflect.Value.Elem: the pointee (addressable) or the interface's
\* content (not addressable); the zero Value when nil.
Elem(val) ==
    IF KindOf(val.typ) = "Ptr"
    THEN IF val.v = 0 THEN Invalid
         ELSE Val(Mem(val.v).typ, val.v, val.ro, Mem(val.v).v)
    ELSE IF val.v.typ = "" THEN Invalid
         ELSE Val(val.v.typ, 0, val.ro, val.v.v)

\* reflect.Value.Field(i), i from 1: addressable iff the struct is; read-only
\* once reached through an unexported field.
Field(val, i) ==
    LET f == FieldsOf(val.typ)[i]
    IN Val(f.typ,
           IF CanAddr(val) THEN val.addr + FieldOffset(val.typ, i) ELSE 0,
           val.ro \/ ~f.exported,
           val.v[i])

\* reflect.Value.Len of an array or slice.
LenOf(val) == IF KindOf(val.typ) = "Slice" THEN val.v.len ELSE Len(val.v)

\* reflect.Value.Index(i), i from 0: a slice element is always addressable,
\* an array element iff the array is.
Index(val, i) ==
    LET et == ElemOf(val.typ)
    IN IF KindOf(val.typ) = "Slice"
       THEN Val(et, val.v.base + i * SizeOf(et), val.ro, Mem(val.v.base).v[i + 1])
       ELSE Val(et,
                IF CanAddr(val) THEN val.addr + i * SizeOf(et) ELSE 0,
                val.ro, val.v[i + 1])

\* The key set of reflect.Value.MapKeys (a nil map has none).
MapKeys(val) == DOMAIN MapContent(val.v)

\* reflect.Value.MapIndex(k): a copy, never addressable; the zero Value when
\* the key is missing.
MapIndex(val, k) ==
    IF k \in MapKeys(val)
    THEN Val(ElemOf(val.typ), 0, val.ro, MapContent(val.v)[k])
    ELSE Invalid

\* (variant: the number of queued values in place of the capacity)
Cap_len(val) == Len(val.v.buf)

\* reflect.Value.Cap of a channel.
Cap(val) == val.v.cap

\* MapKeys returns the keys in unspecified order: every enumeration of
\* the key set.
Orders(S) ==
    { o \in [1..Cardinality(S) -> S] : \A k \in S : \E i \in DOMAIN o : o[i] = k }

KeyOrders(val) ==
    IF val.valid /\ KindOf(val.typ) = "Map" THEN Orders(MapKeys(val)) ELSE { << >> }

\* ----------------------------------------------------------------- engine

Range(seq) == { seq[i] : i \in DOMAIN seq }

\* One line of the difference list: the format string of the Sprintf that
\* produced it, the path it was given and its other arguments.
Line(f, desc, args) == [fmt |-> f, desc |-> desc, args |-> args]

\* What one invocation of deepEqual leaves to be done, in program order:
\* lines to append to diffs, and nested deepEqual calls.
Emit(lines) ==
    [op |-> "emit", lines |-> lines, desc |-> "", have |-> Invalid,
     want |-> Invalid, depth |-> 0]

Call(desc, have, want, depth) ==
    [op |-> "call", lines |-> << >>, desc |-> desc, have |-> have,
     want |-> want, depth |-> depth]

\* (variant: an entry that does not keep the type)
visitedNode_untyped(a1, a2, typ) == [a1 |-> a1, a2 |-> a2, typ |-> ""]

\* type visitedNode struct: one entry of a visited chain.
visitedNode(a1, a2, typ) == [a1 |-> a1, a2 |-> a2, typ |-> typ]

\* visited[h]: the chain stored under h, newest first; empty when absent.
Chain(visited, h) == IF h \in DOMAIN visited THEN visited[h] ELSE << >>

\* (variant: the walk never finds the pair)
Seen_never(visited, h, a1, a2, typ) == FALSE

\* The walk "for p := seen; p != nil; p = p.next" finds the pair.
Seen(visited, h, a1, a2, typ) ==
    \E i \in DOMAIN Chain(visited, h) :
        Chain(visited, h)[i] = visitedNode(a1, a2, typ)

\* (variant: the pair is not stored)
Remember_drop(visited, h, a1, a2, typ) == visited

\* visited[h] = &visitedNode{addr1, addr2, typ, seen}
Remember(visited, h, a1, a2, typ) ==
    (h :> (<< visitedNode(a1, a2, typ) >> \o Chain(visited, h))) @@ visited

\* The closure checkNil: 0 when it returns false, 1 when want is nil and
\* have is not, 2 when have is nil and want is not.
checkNil(have, want) ==
    IF IsNil(want) /\ ~IsNil(have) THEN 1
    ELSE IF ~IsNil(want) /\ IsNil(have) THEN 2
    ELSE 0

checkNilLines(desc, have, want) ==
    IF checkNil(have, want) = 1
    THEN << Line("%s: not equal.", desc, << >>),
            Line("  have: %#v", "", << have.v >>),
            Line("  want: nil", "", << >>) >>
    ELSE << Line("%s: not equal.", desc, << >>),
            Line("  have: nil", "", << >>),
            Line("  want: %#v", "", << want.v >>) >>

\* checkNil formats the non-nil side with Interface(), which panics on a
\* value reached through an unexported field.
checkNilPanics(have, want) ==
    \/ checkNil(have, want) = 1 /\ have.ro
    \/ checkNil(have, want) = 2 /\ want.ro

\* The closure checkLen.
checkLen(have, want) == LenOf(want) # LenOf(have)

checkLenLines(desc, have, want) ==
    << Line("%s: (len(have): %d, len(want): %d)", desc,
            << LenOf(have), LenOf(want) >>),
       Line("  have: %#v", "", << have.v >>),
       Line("  want: %#v", "", << want.v >>) >>

checkLenPanics(have, want) == checkLen(have, want) /\ (have.ro \/ want.ro)

\* Width in bytes of the rune that "for i := range hstr" decodes at byte
\* position i (from 1): a lead byte of a two-byte sequence followed by a
\* continuation byte is one rune of width 2; an ASCII byte, or a byte that
\* does not start a valid sequence, is a rune of width 1.
RuneWidth(str, i) ==
    IF /\ str[i] >= 194 /\ str[i] <= 223
       /\ i + 1 <= Len(str)
       /\ str[i + 1] >= 128 /\ str[i + 1] <= 191
    THEN 2
    ELSE 1

\* The loop "for i := range hstr { if hstr[i] != wstr[i] {...} }" from
\* position i on: the Go index of the first difference it finds, -1 if it
\* finds none.
RECURSIVE StringDiffFrom(_, _, _)
StringDiffFrom(hstr, wstr, i) ==
    IF i > Len(hstr) THEN -1
    ELSE IF hstr[i] # wstr[i] THEN i - 1
    ELSE StringDiffFrom(hstr, wstr, i + RuneWidth(hstr, i))

StringDiff(hstr, wstr) == StringDiffFrom(hstr, wstr, 1)

\* haveFloat != wantFloat on float64: a NaN differs from everything.
FloatDiffers(hf, wf) == hf.nan \/ wf.nan \/ hf.f # wf.f

\* Path of an array or slice element: fmt.Sprintf("%s[%d]", desc, i).
IndexDesc(desc, i) == desc \o "[" \o ToString(i) \o "]"

\* %q of a string key.
Quote(k) == "\"" \o k \o "\""

\* Path of a map element: fmt.Sprintf("%s[%q] ", desc, k).
KeyDesc(desc, k) == desc \o "[" \o Quote(k) \o "] "

\* Path of a struct field: the bare name at the top, "%s.%s" below.
FieldDesc(desc, name) == IF desc = "" THEN name ELSE desc \o "." \o name

\* The calls of "for i := 0; i < want.Len(); i++" on an array or slice.
IndexCalls(desc, have, want, depth) ==
    [i \in 1..LenOf(want) |->
        Call(IndexDesc(desc, i - 1), Index(have, i - 1), Index(want, i - 1),
             depth + 1)]

\* The first map loop, over want's keys in the order wkeys: a missing key
\* gives three lines, a present key a nested call.
WantKeyTasks(desc, have, want, depth, wkeys) ==
    [i \in DOMAIN wkeys |->
        IF ~MapIndex(have, wkeys[i]).valid
        THEN Emit(<< Line("%sExpected key [%q] is missing.", desc, << wkeys[i] >>),
                     Line("  have: not present", "", << >>),
                     Line("  want: %#v", "", << MapIndex(want, wkeys[i]).v >>) >>)
        ELSE Call(KeyDesc(desc, wkeys[i]), MapIndex(have, wkeys[i]),
                  MapIndex(want, wkeys[i]), depth + 1)]

\* The second map loop, over have's keys in the order hkeys.
RECURSIVE HaveKeyTasks(_, _, _, _)
HaveKeyTasks(desc, have, want, hkeys) ==
    IF hkeys = << >> THEN << >>
    ELSE (IF ~MapIndex(want, Head(hkeys)).valid
          THEN << Emit(<< Line("%sUnexpected key [%q].", desc, << Head(hkeys) >>),
                          Line("  have: %#v", "", << MapIndex(have, Head(hkeys)).v >>),
                          Line("  want: not present", "", << >>) >>) >>
          ELSE << >>)
         \o HaveKeyTasks(desc, have, want, Tail(hkeys))

\* The calls of the struct loop, one per declared field.
FieldCalls(desc, have, want, depth) ==
    [i \in 1..Len(FieldsOf(want.typ)) |->
        Call(FieldDesc(desc, FieldsOf(want.typ)[i].name),
             Field(have, i), Field(want, i), depth + 1)]

\* A scalar case: three lines when the values differ, none otherwise; f is
\* the format of the first line and vf that of the value in the other two.
ScalarTasks(differs, f, vf, desc, have, want) ==
    IF differs
    THEN << Emit(<< Line(f, desc, << >>),
                    Line("  have: " \o vf, "", << have.v >>),
                    Line("  want: " \o vf, "", << want.v >>) >>) >>
    ELSE << >>

\* (variant: function values compared by identity)
FuncTasks_identity(desc, have, want) ==
    IF have.v # want.v
    THEN << Emit(<< Line("%s: not equal.", desc, << >>) >>) >>
    ELSE << >>

\* case reflect.Func: checkNil(), whatever it returns.
FuncTasks(desc, have, want) ==
    IF checkNil(have, want) # 0
    THEN << Emit(checkNilLines(desc, have, want)) >>
    ELSE << >>

\* The switch on want.Kind(): what this invocation appends and calls, in
\* order.  A kind without a case (complex numbers) adds nothing.
KindTasks(desc, have, want, depth, wkeys, hkeys) ==
    LET k == KindOf(want.typ)
    IN CASE k = "Array" ->
               IF checkLen(have, want)
               THEN << Emit(checkLenLines(desc, have, want)) >>
               ELSE IndexCalls(desc, have, want, depth)
         [] k = "Chan" ->
               IF Cap(have) # Cap(want)
               THEN << Emit(<< Line("%sCapacities differ:\n  have: %d\n  want: %d",
                                    desc, << Cap(have), Cap(want) >>) >>) >>
               ELSE << >>
         [] k = "Func" -> FuncTasks(desc, have, want)
         [] k = "Interface" ->
               IF checkNil(have, want) # 0
               THEN << Emit(checkNilLines(desc, have, want)) >>
               ELSE << Call(desc, Elem(have), Elem(want), depth + 1) >>
         [] k = "Map" ->
               IF checkNil(have, want) # 0
               THEN << Emit(checkNilLines(desc, have, want)) >>
               ELSE WantKeyTasks(desc, have, want, depth, wkeys)
                    \o HaveKeyTasks(desc, have, want, hkeys)
         [] k = "Ptr" ->
               << Call(desc, Elem(have), Elem(want), depth + 1) >>
         [] k = "Slice" ->
               IF checkNil(have, want) # 0
               THEN << Emit(checkNilLines(desc, have, want)) >>
               ELSE IF checkLen(have, want)
               THEN << Emit(checkLenLines(desc, have, want)) >>
               ELSE IndexCalls(desc, have, want, depth)
         [] k = "String" ->
               IF Len(have.v) # Len(want.v)
               THEN << Emit(<< Line("%s: len(have) %d != len(want) %d.", desc,
                                    << Len(have.v), Len(want.v) >>),
                               Line("  have: %#v", "", << have.v >>),
                               Line("  want: %#v", "", << want.v >>) >>) >>
               ELSE IF StringDiff(have.v, want.v) # -1
               THEN << Emit(<< Line("%s: difference at index %d.", desc,
                                    << StringDiff(have.v, want.v) >>),
                               Line("  have: %#v", "", << have.v >>),
                               Line("  want: %#v", "", << want.v >>) >>) >>
               ELSE << >>
         [] k = "Struct" -> FieldCalls(desc, have, want, depth)
         [] k = "Bool" ->
               ScalarTasks(have.v # want.v, "%s: not equal.", "bool(%t)", desc, have, want)
         [] k \in {"Int", "Uint"} ->
               ScalarTasks(have.v # want.v, "%s: not equal", "%s(%d)", desc, have, want)
         [] k = "Float64" ->
               ScalarTasks(FloatDiffers(have.v, want.v), "%s: not equal", "%s(%f)",
                           desc, have, want)
         [] OTHER -> << >>

\* Whether the switch panics in Interface() while formatting a difference.
KindPanics(have, want) ==
    LET k == KindOf(want.typ)
    IN CASE k = "Array" -> checkLenPanics(have, want)
         [] k \in {"Func", "Interface", "Map"} -> checkNilPanics(have, want)
         [] k = "Slice" ->
               \/ checkNilPanics(have, want)
               \/ checkNil(have, want) = 0 /\ checkLenPanics(have, want)
         [] OTHER -> FALSE

\* The result of one invocation: its tasks, the visited map it leaves and
\* whether it panicked.
Result(tasks, visited, panics) ==
    [tasks |-> tasks, visited |-> visited, panics |-> panics]

\* h := 17*addr1 + addr2, on the canonical (sorted) address pair.
Addr1(have, want) == IF want.addr > have.addr THEN have.addr ELSE want.addr
Addr2(have, want) == IF want.addr > have.addr THEN want.addr ELSE have.addr
Hash(have, want) == 17 * Addr1(have, want) + Addr2(have, want)

\* (variant: the two type names in the wrong order)
TypeMismatchLines_swapped(desc, have, want) ==
    << Line("%s: Not the same type have: '%s', want: '%s'", desc,
            << want.typ, have.typ >>) >>

\* The single line returned when want.Type() != have.Type().
TypeMismatchLines(desc, have, want) ==
    << Line("%s: Not the same type have: '%s', want: '%s'", desc,
            << have.typ, want.typ >>) >>

\* T.deepEqual, one invocation (the nested calls are returned as tasks).
deepEqual(desc, have, want, depth, ignores, visited, wkeys, hkeys) ==
    IF desc \in Range(ignores) THEN Result(<< >>, visited, FALSE)
    ELSE IF ~want.valid /\ ~have.valid THEN Result(<< >>, visited, FALSE)
    ELSE IF ~want.valid /\ have.valid
    THEN Result(<< Emit(<< Line("%s: have invalid or nil object.", desc, << >>) >>) >>,
                visited, FALSE)
    ELSE IF want.valid /\ ~have.valid
    THEN Result(<< Emit(<< Line("%s: wanted a valid, non nil object.", desc, << >>) >>) >>,
                visited, FALSE)
    ELSE IF want.typ # have.typ
    THEN Result(<< Emit(TypeMismatchLines(desc, have, want)) >>, visited, FALSE)
    ELSE IF CanAddr(want) /\ CanAddr(have)
    THEN IF Addr1(have, want) = Addr2(have, want)
         THEN Result(<< >>, visited, FALSE)
         ELSE IF Seen(visited, Hash(have, want), Addr1(have, want),
                      Addr2(have, want), want.typ)
         THEN Result(<< >>, visited, FALSE)
         ELSE Result(KindTasks(desc, have, want, depth, wkeys, hkeys),
                     Remember(visited, Hash(have, want), Addr1(have, want),
                              Addr2(have, want), want.typ),
                     KindPanics(have, want))
    ELSE Result(KindTasks(desc, have, want, depth, wkeys, hkeys), visited,
                KindPanics(have, want))

\* ----------------------------------------------------------------- facade

\* (variant: channels left out of the switch)
isNil_noChan(obj) ==
    IF obj.typ = "" THEN TRUE
    ELSE IF KindOf(obj.typ) \in {"Func", "Map", "Ptr", "Slice"}
    THEN IsNil(ValueOf(obj))
    ELSE FALSE

\* (variant: functions left out of the switch)
isNil_noFunc(obj) ==
    IF obj.typ = "" THEN TRUE
    ELSE IF KindOf(obj.typ) \in {"Chan", "Map", "Ptr", "Slice"}
    THEN IsNil(ValueOf(obj))
    ELSE FALSE

\* T.isNil: the nil interface, or a chan, func, map, pointer or slice whose
\* IsNil is true.
isNil(obj) ==
    IF obj.typ = "" THEN TRUE
    ELSE IF KindOf(obj.typ) \in {"Chan", "Func", "Map", "Ptr", "Slice"}
    THEN IsNil(ValueOf(obj))
    ELSE FALSE

\* ------------------------------------------------------------------ state

VARIABLES
    have,         \* first argument of the comparisons of this run
    want,         \* second argument
    ignores,      \* ignore list handed to EqualWithIgnores
    callNo,       \* the facade call being made, 1..NumCalls; NumCalls + 1 after
    pc,           \* "idle" between calls, "engine" inside deepEqual
    stack,        \* pending work of the running deepEqual, next first
    diffs,        \* difference lines accumulated by the running call
    visited,      \* visited map of the running call
    outcome,      \* per call: "none", "pass", "fatal", "panic", "overflow"
    msg,          \* per call: format of the Fatalf message, "" if none
    reason,       \* per call: the difference list deepEqual returned
    invocations,  \* per call: number of deepEqual invocations made
    skipped       \* per call: paths at which the ignore check returned

equalVars == << have, want, ignores, callNo, pc, stack, diffs, visited, outcome,
                msg, reason, invocations, skipped >>

\* The processes, the file system and the tests that use temporary files.
VARIABLES
    osArgs,               \* per process: os.Args
    stdin,                \* per process: os.Stdin: "open", "eof" or "err"
    ppc,                  \* per process: "none" (not started), "init", "read",
                          \*   "remove", "main" or "exited"
    exits,                \* per process: the codes osExit was called with
    reads,                \* per process: number of ioutil.ReadAll calls
    removes,              \* per process: what osRemoveAll was called on and
                          \*   what it returned
    fs,                   \* the files and directories that exist
    testLibRootDirOnce,   \* the sync.Once: "fresh", "running" or "done"
    testLibRootDir,       \* the global holding the root path ("" at start)
    testLibRootDirStdin,  \* the global holding the pipe's write end
    initFault,            \* the step of the initialization that failed
    roots,                \* the root directories RootTempDir created
    spawned,              \* number of clean-up processes started
    tpc,                  \* per test: where its goroutine is
    call,                 \* per test: the call it is making or made last
    finalizers,           \* per test: T.finalizers
    fin,                  \* per test: the loop index i of Finish
    ran,                  \* per test: finalizers run by the last Finish, and
                          \*   what the removal each made returned
    made,                 \* per test: the resources handed to it
    calls,                \* number of calls made by the tests so far
    nextId,               \* per test: the unique part of the next generated name
    finishes              \* per test: number of calls of Finish begun

tempVars == << osArgs, stdin, ppc, exits, reads, removes, fs, testLibRootDirOnce,
               testLibRootDir, testLibRootDirStdin, initFault, roots, spawned,
               tpc, call, finalizers, fin, ran, made, calls, nextId, finishes >>

\* One call of T.TryUntil and the clock it reads.
VARIABLES
    now,          \* time.Now()
    timeout,      \* the timeout argument
    tryDesc,      \* the desc arguments
    end,          \* end := time.Now().Add(timeout)
    tryPc,        \* "call", "test" (loop condition), "poll", "yield",
                  \*   "returned" or "aborted"
    polls,        \* the polls made: when each began, ended, and its result
    fatals        \* the messages t.Fatalf was called with

tryVars == << now, timeout, tryDesc, end, tryPc, polls, fatals >>

vars == << equalVars, tempVars, tryVars >>

\* The tests (goroutines) of the process and the two processes: the one
\* that runs the tests and the clean-up process it starts.
NumTests == 2
Tests == 1..NumTests
Procs == {"parent", "child"}

\* No call in progress: the value of call[t] before the first call.
NoCall == [fn |-> "", mode |-> 0, fault |-> "", state |-> "", value |-> << >>]

\* The state in which the parent process is at parentPc, with arguments
\* parentArgs and standard input reader, on a file system holding files;
\* the globals of files.go have their zero values and no test has made a
\* call.
Launched(parentArgs, reader, parentPc, files) ==
    /\ osArgs = [p \in Procs |-> IF p = "parent" THEN parentArgs ELSE << >>]
    /\ stdin = [p \in Procs |-> IF p = "parent" THEN reader ELSE "open"]
    /\ ppc = [p \in Procs |-> IF p = "parent" THEN parentPc ELSE "none"]
    /\ fs = files
    /\ exits = [p \in Procs |-> << >>]
    /\ reads = [p \in Procs |-> 0]
    /\ removes = [p \in Procs |-> << >>]
    /\ testLibRootDirOnce = "fresh"
    /\ testLibRootDir = << >>
    /\ testLibRootDirStdin = "nil"
    /\ initFault = ""
    /\ roots = {}
    /\ spawned = 0
    /\ tpc = [t \in Tests |-> "idle"]
    /\ call = [t \in Tests |-> NoCall]
    /\ finalizers = [t \in Tests |-> << >>]
    /\ fin = [t \in Tests |-> 0]
    /\ ran = [t \in Tests |-> << >>]
    /\ made = [t \in Tests |-> {}]
    /\ calls = 0
    /\ nextId = [t \in Tests |-> 1]
    /\ finishes = [t \in Tests |-> 0]

\* The processes, file system and tests before any process has started.
NoProcess == Launched(<< >>, "open", "none", {})

\* No call of TryUntil.
NoTryUntil ==
    /\ now = 0
    /\ timeout = 0
    /\ tryDesc = << >>
    /\ end = 0
    /\ tryPc = "none"
    /\ polls = << >>
    /\ fatals = << >>

\* Each run makes four facade calls on its pair of arguments, every call a
\* test of its own (a fresh visited map, an outcome of its own):
\*   1 EqualWithIgnores(have, want, ignores)    2 NotEqual(have, want)
\*   3 EqualWithIgnores(want, have, ignores)    4 NotEqual(want, have)
\* Equal(have, want) is EqualWithIgnores(have, want, nil).
NumCalls == 4
IsEqualCall(n) == n \in {1, 3}
CallHave(n) == IF n <= 2 THEN have ELSE want
CallWant(n) == IF n <= 2 THEN want ELSE have

Init ==
    /\ \/ \E i \in DOMAIN FixedArgs : have = FixedArgs[i]
       \/ \E str \in AllStrings : have = Boxed("string", str)
    /\ \/ \E i \in DOMAIN FixedArgs : want = FixedArgs[i]
       \/ \E str \in AllStrings : want = Boxed("string", str)
    /\ ignores \in IgnoreListsFor(have, want)
    /\ callNo = 1
    /\ pc = "idle"
    /\ stack = << >>
    /\ diffs = << >>
    /\ visited = << >>
    /\ outcome = [n \in 1..NumCalls |-> "none"]
    /\ msg = [n \in 1..NumCalls |-> ""]
    /\ reason = [n \in 1..NumCalls |-> << >>]
    /\ invocations = [n \in 1..NumCalls |-> 0]
    /\ skipped = [n \in 1..NumCalls |-> {}]
    /\ NoProcess
    /\ NoTryUntil

\* No comparison: the state of the variables above when no call of Equal
\* or NotEqual is made.
NoComparison ==
    /\ have = NilIface /\ want = NilIface /\ ignores = << >>
    /\ callNo = NumCalls + 1
    /\ pc = "idle"
    /\ stack = << >>
    /\ diffs = << >>
    /\ visited = << >>
    /\ outcome = [n \in 1..NumCalls |-> "none"]
    /\ msg = [n \in 1..NumCalls |-> ""]
    /\ reason = [n \in 1..NumCalls |-> << >>]
    /\ invocations = [n \in 1..NumCalls |-> 0]
    /\ skipped = [n \in 1..NumCalls |-> {}]

\* The running call ends with outcome out (and Fatalf format m): the next
\* call starts from a clean engine.
Finish(out, m) ==
    /\ outcome' = [outcome EXCEPT ![callNo] = out]
    /\ msg' = [msg EXCEPT ![callNo] = m]
    /\ reason' = [reason EXCEPT ![callNo] = diffs]
    /\ callNo' = callNo + 1
    /\ pc' = "idle"
    /\ stack' = << >>
    /\ diffs' = << >>
    /\ visited' = << >>

\* reason := t.deepEqual("", reflect.ValueOf(have), reflect.ValueOf(want),
\*                       ignores, make(map[uintptr]*visitedNode))
EnterEngine ==
    /\ pc' = "engine"
    /\ stack' = << Call("", ValueOf(CallHave(callNo)), ValueOf(CallWant(callNo)), 1) >>
    /\ diffs' = << >>
    /\ visited' = << >>
    /\ UNCHANGED << callNo, outcome, msg, reason >>

\* T.equalWithIgnoresPrefix_, up to the call of deepEqual.
EqualEnter ==
    /\ pc = "idle" /\ callNo <= NumCalls /\ IsEqualCall(callNo)
    /\ LET haveNil == isNil(CallHave(callNo))
           wantNil == isNil(CallWant(callNo))
       IN IF haveNil /\ wantNil THEN Finish("pass", "")
          ELSE IF haveNil /\ ~wantNil
          THEN Finish("fatal", "%sExpected non nil, got nil.")
          ELSE IF ~haveNil /\ wantNil
          THEN Finish("fatal", "%sExpected nil, got non nil.")
          ELSE EnterEngine
    /\ UNCHANGED << have, want, ignores, invocations, skipped >>
    /\ UNCHANGED << tempVars, tryVars >>

\* T.notEqualPrefix_, up to the call of deepEqual.
NotEqualEnter ==
    /\ pc = "idle" /\ callNo <= NumCalls /\ ~IsEqualCall(callNo)
    /\ LET haveNil == isNil(CallHave(callNo))
           unwantedNil == isNil(CallWant(callNo))
       IN IF haveNil /\ unwantedNil
          THEN Finish("fatal", "%sEquality not expected, have=nil")
          ELSE IF haveNil \/ unwantedNil THEN Finish("pass", "")
          ELSE EnterEngine
    /\ UNCHANGED << have, want, ignores, invocations, skipped >>
    /\ UNCHANGED << tempVars, tryVars >>

\* The ignore list deepEqual runs with: NotEqual passes nil.
EngineIgnores == IF IsEqualCall(callNo) THEN ignores ELSE << >>

\* One step of the running deepEqual: the next pending piece of work is
\* either lines to append or a nested invocation.  An invocation nested
\* deeper than the stack holds ends the process (stack exhaustion), and so
\* does a panic inside the invocation.
EngineStep ==
    /\ pc = "engine" /\ stack # << >>
    /\ LET top == Head(stack)
       IN IF top.op = "emit"
          THEN /\ diffs' = diffs \o top.lines
               /\ stack' = Tail(stack)
               /\ UNCHANGED << callNo, pc, visited, outcome, msg, reason,
                               invocations, skipped >>
          ELSE IF top.depth > MaxDepth
          THEN /\ Finish("overflow", "")
               /\ UNCHANGED << invocations, skipped >>
          ELSE \E wkeys \in KeyOrders(top.want), hkeys \in KeyOrders(top.have) :
                 LET r == deepEqual(top.desc, top.have, top.want, top.depth,
                                    EngineIgnores, visited, wkeys, hkeys)
                 IN /\ invocations' = [invocations EXCEPT ![callNo] = @ + 1]
                    /\ skipped' = IF top.desc \in Range(EngineIgnores)
                                  THEN [skipped EXCEPT ![callNo] = @ \cup {top.desc}]
                                  ELSE skipped
                    /\ IF r.panics
                       THEN Finish("panic", "")
                       ELSE /\ stack' = r.tasks \o Tail(stack)
                            /\ visited' = r.visited
                            /\ UNCHANGED << callNo, pc, diffs, outcome, msg, reason >>
    /\ UNCHANGED << have, want, ignores >>
    /\ UNCHANGED << tempVars, tryVars >>

\* T.equalWithIgnoresPrefix_, after deepEqual returned:
\*   if len(reason) > 0 { t.Fatalf("%sNot Equal\n%s", ...) }
EqualReturn ==
    /\ pc = "engine" /\ stack = << >> /\ IsEqualCall(callNo)
    /\ IF Len(diffs) > 0 THEN Finish("fatal", "%sNot Equal\n%s")
       ELSE Finish("pass", "")
    /\ UNCHANGED << have, want, ignores, invocations, skipped >>
    /\ UNCHANGED << tempVars, tryVars >>

\* T.notEqualPrefix_, after deepEqual returned:
\*   if len(reason) == 0 { t.Fatalf("%sValues are not expected ...") }
NotEqualReturn ==
    /\ pc = "engine" /\ stack = << >> /\ ~IsEqualCall(callNo)
    /\ IF Len(diffs) = 0
       THEN Finish("fatal", "%sValues are not expected to be equal: %#v")
       ELSE Finish("pass", "")
    /\ UNCHANGED << have, want, ignores, invocations, skipped >>
    /\ UNCHANGED << tempVars, tryVars >>

Next ==
    \/ EqualEnter
    \/ NotEqualEnter
    \/ EngineStep
    \/ EqualReturn
    \/ NotEqualReturn

Spec == Init /\ [][Next]_vars

TypeOK ==
    /\ callNo \in 1..(NumCalls + 1)
    /\ pc \in {"idle", "engine"}
    /\ \A n \in 1..NumCalls :
          outcome[n] \in {"none", "pass", "fatal", "panic", "overflow"}

\* ----------------------------------------------------------------- claims

Done(n) == outcome[n] # "none"

\* x and y are the same argument.
Same(x, y) == x.typ = y.typ /\ x.v = y.v

\* x is nil in Go's sense: the nil interface, or a nil chan, func, map,
\* pointer or slice.
GoNil(x) ==
    \/ x.typ = ""
    \/ KindOf(x.typ) \in {"Func", "Map", "Ptr"} /\ x.v = 0
    \/ KindOf(x.typ) = "Slice" /\ x.v.base = 0
    \/ KindOf(x.typ) = "Chan" /\ x.v.id = 0

\* The difference list of call n names the types of both arguments.
NamesBothTypes(n) ==
    \E i \in DOMAIN reason[n] :
        /\ reason[n][i].fmt = "%s: Not the same type have: '%s', want: '%s'"
        /\ reason[n][i].args = << CallHave(n).typ, CallWant(n).typ >>

\* C1: for every pair (a, b), exactly one of Equal(a, b) and NotEqual(a, b)
\* fatally aborts: Equal passes and NotEqual aborts, or Equal aborts and
\* NotEqual passes.
C1_ExactlyOneAborts ==
    (ignores = << >> /\ Done(1) /\ Done(2)) =>
        \/ outcome[1] = "pass" /\ outcome[2] = "fatal"
        \/ outcome[1] = "fatal" /\ outcome[2] = "pass"

\* C2: for every value v of every supported kind, Equal(v, v) passes and
\* NotEqual(v, v) fatally aborts.
C2_ReflexiveEqual ==
    (ignores = << >> /\ Same(have, want)) =>
        /\ Done(1) => outcome[1] = "pass"
        /\ Done(2) => outcome[2] = "fatal"

\* C3 as stated: whenever the runtime types of a and b differ, Equal(a, b)
\* fatally aborts with a message naming both types, also when both are nil
\* pointers of different types.
C3_TypesDifferAborts ==
    (ignores = << >> /\ have.typ # want.typ /\ Done(1)) =>
        outcome[1] = "fatal" /\ NamesBothTypes(1)

\* C3 amended: when the types of a and b differ and neither is nil, Equal
\* aborts with the single difference naming both types, in the order have,
\* want; when both are nil Equal passes whatever their types; when exactly
\* one is nil Equal aborts with the nil message, which names no type.
C3_TypesDifferNonNil ==
    \A n \in {1, 3} :
        (ignores = << >> /\ CallHave(n).typ # CallWant(n).typ /\ Done(n)) =>
            IF ~GoNil(CallHave(n)) /\ ~GoNil(CallWant(n))
            THEN /\ outcome[n] = "fatal"
                 /\ msg[n] = "%sNot Equal\n%s"
                 /\ Len(reason[n]) = 1
                 /\ NamesBothTypes(n)
            ELSE IF GoNil(CallHave(n)) /\ GoNil(CallWant(n))
            THEN outcome[n] = "pass"
            ELSE /\ outcome[n] = "fatal"
                 /\ msg[n] \in {"%sExpected non nil, got nil.",
                                "%sExpected nil, got non nil."}
                 /\ reason[n] = << >>

C3_Witness ==
    /\ ignores = << >> /\ have.typ = "int" /\ want.typ = "uint"
    /\ outcome[1] = "fatal"

\* C4: a top-level comparison terminates for every pair of finite object
\* graphs, whatever kinds a reference cycle passes through: no comparison
\* recurses until the stack is exhausted.
C4_Terminates == \A n \in 1..NumCalls : outcome[n] # "overflow"

\* The cyclic lists: one node pointing to itself, and two nodes pointing to
\* each other, every node holding the same data.
IsOneCycle(x) ==
    /\ x.typ = "*testlib.testEqualCustomNode"
    /\ Mem(x.v).v[2] = x.v

IsTwoCycle(x) ==
    /\ x.typ = "*testlib.testEqualCustomNode"
    /\ Mem(x.v).v[2] # x.v
    /\ Mem(Mem(x.v).v[2]).v[2] = x.v

NodeData(addr) == Mem(addr).v[1]

SameDataTwoCycle(x) ==
    IsTwoCycle(x) /\ NodeData(x.v) = StrA /\ NodeData(Mem(x.v).v[2]) = StrA

\* C5: two independently constructed cyclic pointer structures with
\* isomorphic cycles and equal data compare equal: Equal passes and NotEqual
\* aborts, in both argument orders.
C5_IsomorphicCyclesEqual ==
    (/\ ignores = << >>
     /\ \/ IsOneCycle(have) /\ IsOneCycle(want)
        \/ SameDataTwoCycle(have) /\ SameDataTwoCycle(want)
     /\ have.v # want.v) =>
        /\ Done(1) => outcome[1] = "pass"
        /\ Done(2) => outcome[2] = "fatal"
        /\ Done(3) => outcome[3] = "pass"
        /\ Done(4) => outcome[4] = "fatal"

C5_Witness ==
    /\ ignores = << >>
    /\ SameDataTwoCycle(have) /\ SameDataTwoCycle(want) /\ have.v # want.v
    /\ callNo = NumCalls + 1

\* C6 as stated: comparing a 1-node cycle against a 2-node cycle terminates
\* and reports a difference, so Equal aborts.
C6_OneVsTwoCycleDiffers ==
    (ignores = << >> /\ IsOneCycle(have) /\ IsTwoCycle(want) /\ Done(1)) =>
        outcome[1] = "fatal" /\ Len(reason[1]) > 0

\* Some node of the 2-node cycle w holds data other than the node of the
\* 1-node cycle h.
CycleDataDiffers(h, w) ==
    \/ NodeData(w.v) # NodeData(h.v)
    \/ NodeData(Mem(w.v).v[2]) # NodeData(h.v)

\* C6 amended: comparing a 1-node cycle against a 2-node cycle terminates,
\* in both argument orders; it reports a difference (Equal aborts, NotEqual
\* passes) exactly when some node of the 2-node cycle holds data different
\* from the 1-node cycle's, and reports none (Equal passes, NotEqual aborts)
\* when every node holds the same data.
C6_OneVsTwoCycle ==
    (ignores = << >> /\ IsOneCycle(have) /\ IsTwoCycle(want)) =>
        \A n \in 1..NumCalls :
            Done(n) =>
                IF CycleDataDiffers(have, want)
                THEN /\ outcome[n] = (IF IsEqualCall(n) THEN "fatal" ELSE "pass")
                     /\ Len(reason[n]) > 0
                ELSE /\ outcome[n] = (IF IsEqualCall(n) THEN "pass" ELSE "fatal")
                     /\ Len(reason[n]) = 0

C6_Witness ==
    /\ ignores = << >> /\ IsOneCycle(have) /\ IsTwoCycle(want)
    /\ CycleDataDiffers(have, want)
    /\ outcome[1] = "fatal" /\ Len(reason[1]) > 0

RECURSIVE ObjDiffs(_, _, _, _)
ObjDiffs(path, above, haveAddr, wantAddr) ==
    IF haveAddr = 0 /\ wantAddr = 0 THEN {}
    ELSE IF haveAddr = 0 \/ wantAddr = 0 THEN { above }
    ELSE (IF Mem(haveAddr).v[1] # Mem(wantAddr).v[1]
          THEN { above \cup { FieldDesc(path, "str") } }
          ELSE {})
         \cup ObjDiffs(FieldDesc(path, "link1"),
                       above \cup { FieldDesc(path, "link1") },
                       Mem(haveAddr).v[2], Mem(wantAddr).v[2])
         \cup ObjDiffs(FieldDesc(path, "link2"),
                       above \cup { FieldDesc(path, "link2") },
                       Mem(haveAddr).v[3], Mem(wantAddr).v[3])

\* Every difference between have and want is masked by the ignore list.
AllDiffsListed ==
    \A d \in ObjDiffs("", { "" }, have.v, want.v) : d \cap Range(ignores) # {}

\* C8: EqualWithIgnores(have, want, ignores) passes when every path at which
\* have and want differ is listed in ignores and aborts when some differing
\* path is not listed; a path is skipped only on exact string match.
C8_IgnoresMaskOnlyListed ==
    (/\ have.typ = "*testlib.testObject" /\ want.typ = "*testlib.testObject"
     /\ Done(1)) =>
        /\ AllDiffsListed => outcome[1] = "pass"
        /\ ~AllDiffsListed => outcome[1] = "fatal"
        /\ skipped[1] \subseteq Range(ignores)

\* C9: top-level nil policy.  Equal passes without calling the engine when
\* both arguments are nil and aborts when exactly one is; NotEqual aborts
\* when both are nil and passes without calling the engine when exactly one
\* is.
C9_NilPolicy ==
    \A n \in 1..NumCalls :
        Done(n) =>
            LET haveNil == GoNil(CallHave(n))
                wantNil == GoNil(CallWant(n))
            IN /\ (haveNil /\ wantNil) =>
                     /\ outcome[n] = (IF IsEqualCall(n) THEN "pass" ELSE "fatal")
                     /\ invocations[n] = 0
               /\ (haveNil # wantNil) =>
                     /\ outcome[n] = (IF IsEqualCall(n) THEN "fatal" ELSE "pass")
                     /\ invocations[n] = 0

C9_Witness ==
    /\ have.typ = "chan bool" /\ GoNil(have)
    /\ want.typ = "chan bool" /\ ~GoNil(want)
    /\ callNo = NumCalls + 1
    /\ outcome[1] = "fatal" /\ outcome[2] = "pass"

\* Go index of the first byte at which two strings of equal length differ.
SmallestDiff(hstr, wstr) ==
    (CHOOSE i \in 1..Len(hstr) :
        hstr[i] # wstr[i] /\ \A j \in 1..(i - 1) : hstr[j] = wstr[j]) - 1

\* C10: for any two strings the comparison reports no difference only if
\* they are identical in length and in every byte; when the lengths differ
\* it reports one length difference; when the lengths match and the
\* contents differ it reports exactly one difference, citing the smallest
\* index at which the strings differ.
C10_StringCompare ==
    (/\ ignores = << >>
     /\ have.typ = "string" /\ want.typ = "string"
     /\ Done(1)) =>
        /\ Len(reason[1]) = 0 => have.v = want.v
        /\ Len(have.v) # Len(want.v) =>
              /\ Len(reason[1]) = 3
              /\ reason[1][1].fmt = "%s: len(have) %d != len(want) %d."
        /\ (Len(have.v) = Len(want.v) /\ have.v # want.v) =>
              /\ Len(reason[1]) = 3
              /\ reason[1][1].fmt = "%s: difference at index %d."
              /\ reason[1][1].args = << SmallestDiff(have.v, want.v) >>

\* have and want are two non-nil maps of the same type.
IsMapPair ==
    /\ have.typ = want.typ /\ KindOf(have.typ) = "Map"
    /\ ~GoNil(have) /\ ~GoNil(want)

\* The elements x and y of two maps of type t are equal: the same integer,
\* or, in a selfMap (whose only element is the map itself), maps with the
\* same keys.
ElemSame(t, x, y) ==
    IF KindOf(ElemOf(t)) = "Map"
    THEN DOMAIN MapContent(x) = DOMAIN MapContent(y)
    ELSE x = y

\* The indices of the lines of call n's difference list that were made from
\* format f for key k.
KeyLines(n, f, k) ==
    { i \in DOMAIN reason[n] : reason[n][i].fmt = f /\ reason[n][i].args = << k >> }

\* C11: map comparison is key-based.  Two non-nil maps of the same type give
\* an empty difference list iff they have the same key set and the values
\* under every common key are equal; each key of want missing in have gives
\* one missing-key difference and each key of have missing in want one
\* unexpected-key difference, whatever the iteration order.
C11_MapKeyBased ==
    \A n \in {1, 3} :
        (ignores = << >> /\ IsMapPair /\ Done(n)) =>
            LET h == CallHave(n)
                w == CallWant(n)
                hk == DOMAIN MapContent(h.v)
                wk == DOMAIN MapContent(w.v)
            IN /\ outcome[n] \in {"pass", "fatal"}
               /\ (reason[n] = << >>) <=>
                     /\ hk = wk
                     /\ \A k \in hk :
                           ElemSame(h.typ, MapContent(h.v)[k], MapContent(w.v)[k])
               /\ \A k \in hk \cup wk :
                     /\ Cardinality(KeyLines(n, "%sExpected key [%q] is missing.", k))
                           = (IF k \in wk \ hk THEN 1 ELSE 0)
                     /\ Cardinality(KeyLines(n, "%sUnexpected key [%q].", k))
                           = (IF k \in hk \ wk THEN 1 ELSE 0)

\* The channel an argument is or holds: the argument itself, or the field Ch
\* of a chanHolder.
IsChanArg(x) == x.typ \in {"chan bool", "testlib.chanHolder"}
ChanOf(x) == IF x.typ = "chan bool" THEN x.v ELSE x.v[1]

\* C12 as stated: two channel values of the same type are reported equal iff
\* their capacities are equal, as top-level arguments or nested in a struct,
\* whatever they hold and also when one of them is a nil channel.
C12_ChanEqualIffCap ==
    (/\ ignores = << >>
     /\ IsChanArg(have) /\ want.typ = have.typ
     /\ Done(1) /\ Done(2)) =>
        IF ChanOf(have).cap = ChanOf(want).cap
        THEN outcome[1] = "pass" /\ outcome[2] = "fatal"
        ELSE outcome[1] = "fatal" /\ outcome[2] = "pass"

\* What the code reports on two channels: nested in a struct, or both
\* non-nil, equal capacities; as top-level arguments of which exactly one is
\* nil, never equal; both nil, equal.
ChansReportedEqual(h, w) ==
    IF h.typ = "chan bool" /\ (ChanOf(h).id = 0) # (ChanOf(w).id = 0)
    THEN FALSE
    ELSE ChanOf(h).cap = ChanOf(w).cap

\* C12 amended: two channels nested in a struct, or two non-nil top-level
\* channels, are reported equal iff their capacities are equal, whatever
\* their buffers hold (nested, a nil channel equals an unbuffered one); as
\* top-level arguments a nil and a non-nil channel are reported different
\* whatever the capacities, and two nil channels equal.
C12_ChanCapacity ==
    (ignores = << >> /\ IsChanArg(have) /\ want.typ = have.typ) =>
        \A n \in 1..NumCalls :
            Done(n) =>
                outcome[n] =
                    (IF ChansReportedEqual(have, want) = IsEqualCall(n)
                     THEN "pass" ELSE "fatal")

C12_Witness ==
    /\ ignores = << >>
    /\ have.typ = "testlib.chanHolder" /\ want.typ = "testlib.chanHolder"
    /\ ChanOf(have).id = 0 /\ ChanOf(want).id # 0
    /\ outcome[1] = "pass" /\ outcome[2] = "fatal"

\* C13: the verdicts do not depend on the order of the arguments:
\* Equal(a, b) passes iff Equal(b, a) passes, and NotEqual(a, b) passes iff
\* NotEqual(b, a) passes.
C13_OrderIndependent ==
    (ignores = << >> /\ callNo = NumCalls + 1) =>
        /\ (outcome[1] = "pass") <=> (outcome[3] = "pass")
        /\ (outcome[2] = "pass") <=> (outcome[4] = "pass")

\* ---------------------------------------------- processes and file system

\* Most calls the tests of one run make, over all tests, and most of them
\* that create a temporary file or directory.
MaxCalls == 4
MaxCreates == 1

\* const testInterceptorArg
testInterceptorArg == "wledfhs9d8fs9id"

\* Paths are Go strings, kept as sequences of characters.  os.TempDir() is
\* "/t" here.
osTempDir == << "/", "t" >>

\* strings.HasPrefix
HasPrefix(str, prefix) ==
    Len(str) >= Len(prefix) /\ SubSeq(str, 1, Len(prefix)) = prefix

\* path lies below the directory dir.
Under(path, dir) == HasPrefix(path, dir \o << "/" >>)

\* A file or directory: its path, whether it is a directory, its permission
\* bits and its content.
File(path, isDir, mode, content) ==
    [path |-> path, dir |-> isDir, mode |-> mode, content |-> content]

Exists(path) == \E e \in fs : e.path = path
Entry(path) == CHOOSE e \in fs : e.path = path

\* The directory ioutil.TempDir and ioutil.TempFile create in: os.TempDir()
\* when dir is "".
CreateDir(dir) == IF dir = << >> THEN osTempDir ELSE dir

\* The name ioutil.TempDir and ioutil.TempFile generate: dir, the prefix
\* and a part that makes the name unique.
TempName(dir, prefix, id) ==
    CreateDir(dir) \o << "/" >> \o prefix \o << ToString(id) >>

\* Creation can succeed only in a directory that exists.
CanCreateIn(dir) == Exists(CreateDir(dir)) /\ Entry(CreateDir(dir)).dir

\* What is left of the files after os.RemoveAll(path) and os.Remove(path).
RemoveAll(files, path) ==
    { e \in files : e.path # path /\ ~Under(e.path, path) }

\* (variant: os.Remove leaves the file)
Remove_keeps(files, path) == files

Remove(files, path) == { e \in files : e.path # path }

\* The permission bits of RootTempDir, TempDir and TempFile / WriteTempFile:
\* 0777, 0755 and 0644.
RootMode == 511
DefaultDirMode == 493
DefaultFileMode == 420

\* The files a run starts on: the system's temporary directory, a root left
\* there by an earlier run, a directory outside the temporary directory and
\* one whose name merely starts like the temporary directory's.
InitialFiles ==
    { File(osTempDir, TRUE, 1023, ""),
      File(<< "/", "t", "/", "g", "0" >>, TRUE, RootMode, ""),
      File(<< "/", "t", "/", "g", "0", "/", "a" >>, FALSE, DefaultFileMode, "left"),
      File(<< "/", "x" >>, TRUE, DefaultDirMode, ""),
      File(<< "/", "t", "x" >>, TRUE, DefaultDirMode, "") }

\* The paths a process is handed as its last argument: none, the file
\* system's root, a directory outside the temporary directory, the temporary
\* directory, a directory whose name merely starts like it, a Temp Root
\* and a path that does not exist.
Paths ==
    { << >>, << "/" >>, << "/", "x" >>, osTempDir, << "/", "t", "x" >>,
      << "/", "t", "/", "g", "0" >>, << "/", "t", "/", "g", "9" >> }

\* The argument vectors a process is started with (os.Args) ...
ArgVectors ==
    { << "argv0" >>, << "argv0", testInterceptorArg >>,
      << "argv0", testInterceptorArg, << "/", "t", "/", "g", "0" >>, "-test.v" >> }
        \cup { << "argv0", tok, path >> :
                   tok \in {testInterceptorArg, "-test.v"}, path \in Paths }

\* ... and the states its standard input can be in: still open, at end of
\* stream, failing.
Readers == {"open", "eof", "err"}

\* The ways the process is started: every argument vector with every
\* standard input.
Launches == ArgVectors \X Readers

\* --------------------------------------------------------- initRootTempDir

\* len(args) == 3 && args[1] == testInterceptorArg
Intercepts(a) == Len(a) = 3 /\ a[2] = testInterceptorArg

\* strings.HasPrefix(args[2], osTempDir())
GuardPasses(a) == HasPrefix(a[3], osTempDir)

\* osExit(code): the process ends.
osExit(p, code) ==
    /\ exits' = [exits EXCEPT ![p] = Append(@, code)]
    /\ ppc' = [ppc EXCEPT ![p] = "exited"]

\* init() / initRootTempDir up to the call of ioutil.ReadAll: return when
\* the arguments are not the clean-up form, exit 1 when the path fails the
\* guard, else start reading.
ProcInit(p) ==
    /\ ppc[p] = "init"
    /\ IF ~Intercepts(osArgs[p])
       THEN /\ ppc' = [ppc EXCEPT ![p] = "main"]
            /\ UNCHANGED << exits, reads >>
       ELSE IF ~GuardPasses(osArgs[p])
       THEN /\ osExit(p, 1)
            /\ UNCHANGED reads
       ELSE /\ ppc' = [ppc EXCEPT ![p] = "read"]
            /\ reads' = [reads EXCEPT ![p] = @ + 1]
            /\ UNCHANGED exits
    /\ UNCHANGED << osArgs, stdin, removes, fs, testLibRootDirOnce, testLibRootDir,
                    testLibRootDirStdin, initFault, roots, spawned, tpc, call,
                    finalizers, fin, ran, made, calls, nextId >>
    /\ UNCHANGED << equalVars, tryVars, finishes >>

\* (variant: the read does not wait for the stream to end)
ReadReturns_atOnce(reader) == TRUE

\* ioutil.ReadAll(reader) blocks while the stream is open.
ReadReturns(reader) == reader # "open"

\* ioutil.ReadAll(reader) returns: at the end of the stream, or with an
\* error, which is exit 2.
ProcRead(p) ==
    /\ ppc[p] = "read"
    /\ ReadReturns(stdin[p])
    /\ IF stdin[p] = "err"
       THEN osExit(p, 2)
       ELSE /\ ppc' = [ppc EXCEPT ![p] = "remove"]
            /\ UNCHANGED exits
    /\ UNCHANGED << osArgs, stdin, reads, removes, fs, testLibRootDirOnce,
                    testLibRootDir, testLibRootDirStdin, initFault, roots, spawned,
                    tpc, call, finalizers, fin, ran, made, calls, nextId >>
    /\ UNCHANGED << equalVars, tryVars, finishes >>

\* (variant: the exit code does not tell whether the removal failed)
RemoveExit_zero(err) == 0

\* The exit code after osRemoveAll returned err.
RemoveExit(err) == IF err # "nil" THEN 3 ELSE 0

\* osRemoveAll(args[2]): exit 3 when it fails, exit 0 when it succeeds.
ProcRemove(p) ==
    /\ ppc[p] = "remove"
    /\ \E err \in {"nil", "err"} :
          /\ removes' = [removes EXCEPT ![p] =
                             Append(@, [path |-> osArgs[p][3], err |-> err])]
          /\ fs' = IF err # "nil" THEN fs ELSE RemoveAll(fs, osArgs[p][3])
          /\ osExit(p, RemoveExit(err))
    /\ UNCHANGED << osArgs, stdin, reads, testLibRootDirOnce, testLibRootDir,
                    testLibRootDirStdin, initFault, roots, spawned, tpc, call,
                    finalizers, fin, ran, made, calls, nextId >>
    /\ UNCHANGED << equalVars, tryVars, finishes >>

\* Whoever holds the other end of a process's standard input closes it, or
\* the stream breaks.
StdinEnds(p) ==
    /\ ppc[p] \notin {"none", "exited"}
    /\ stdin[p] = "open"
    /\ \E r \in {"eof", "err"} : stdin' = [stdin EXCEPT ![p] = r]
    /\ UNCHANGED << osArgs, ppc, exits, reads, removes, fs, testLibRootDirOnce,
                    testLibRootDir, testLibRootDirStdin, initFault, roots, spawned,
                    tpc, call, finalizers, fin, ran, made, calls, nextId >>
    /\ UNCHANGED << equalVars, tryVars, finishes >>

\* A process started in any of the ways above runs its init().
InitInit ==
    /\ \E l \in Launches : Launched(l[1], l[2], "init", InitialFiles)
    /\ NoComparison
    /\ NoTryUntil

NextInit ==
    \/ \E p \in Procs : ProcInit(p)
    \/ \E p \in Procs : ProcRead(p)
    \/ \E p \in Procs : ProcRemove(p)
    \/ \E p \in Procs : StdinEnds(p)

SpecInit == InitInit /\ [][NextInit]_vars

\* (variant: the write end of the pipe stays open somewhere)
PipeAtExit_open == {"open"}

\* What the reader of the pipe finds once the process holding the write end
\* has ended: the end of the stream, or a read error.
PipeAtExit == {"eof", "err"}

\* The process that runs the tests ends (returns from main, os.Exit, a
\* panic, a raw exit system call): its tests stop and the write end of the
\* pipe is closed, which the reader of the pipe sees as the end of the
\* stream (or, the read failing, as an error).
ParentExit ==
    /\ ppc["parent"] = "main"
    /\ ppc' = [ppc EXCEPT !["parent"] = "exited"]
    /\ IF testLibRootDirStdin = "open" /\ ppc["child"] # "none"
       THEN \E r \in PipeAtExit : stdin' = [stdin EXCEPT !["child"] = r]
       ELSE UNCHANGED stdin
    /\ UNCHANGED << osArgs, exits, reads, removes, fs, testLibRootDirOnce,
                    testLibRootDir, testLibRootDirStdin, initFault, roots, spawned,
                    tpc, call, finalizers, fin, ran, made, calls, nextId >>
    /\ UNCHANGED << equalVars, tryVars, finishes >>

\* ------------------------------------------------------------- test scope

\* T.Name(): the name of the running test function.
Name(t) == << "T", ToString(t) >>

\* A Go string as an argument of T.NotEqual.
Str(chars) == Boxed("string", chars)

\* An *os.File as an argument of T.NotEqual: nil, or the open file id.
Handle(id) == Boxed("*os.File", id)

\* (variant: errors are not looked at)
ExpectSuccess_never(err) == FALSE

\* T.ExpectSuccess(err) aborts the test iff err is not nil.
ExpectSuccess(err) == err # "nil"

\* T.NotEqual(have, unwanted) aborts the test: both nil, or, neither being
\* nil, deepEqual returning no difference.  (The values this file hands it
\* are a file handle with nil, decided by the nil checks, and a path with
\* "", two strings, which deepEqual compares by length and then by the
\* loop over have.)
NotEqualAborts(h, unwanted) ==
    IF isNil(h) /\ isNil(unwanted) THEN TRUE
    ELSE IF isNil(h) \/ isNil(unwanted) THEN FALSE
    ELSE /\ Len(h.v) = Len(unwanted.v)
         /\ StringDiff(h.v, unwanted.v) = -1

\* The record of a call: the function, its mode argument, the step that
\* failed ("none" when none did), whether the call is running, has returned
\* or has aborted the test, and the value returned.
CallOf(fn, mode) ==
    [fn |-> fn, mode |-> mode, fault |-> "", state |-> "running", value |-> << >>]

\* (variant: the finalizers are given the root instead of the resource)
Finalizer_root(id, kind, path) == [id |-> id, kind |-> kind, path |-> testLibRootDir]

\* A finalizer: when it was registered (1 for the first), what it does and
\* on which path.
Finalizer(id, kind, path) == [id |-> id, kind |-> kind, path |-> path]

\* What one of the functions below did: whether it aborted the test, the
\* files it left, the finalizers it registered and the value it returned.
Did(aborted, files, fins, value) ==
    [aborted |-> aborted, files |-> files, fins |-> fins, value |-> value]

\* (variant: the finalizer registered before the mode is set)
TempDirMode_registersFirst(t, root, mode, fault, id) ==
    LET f == IF fault \in {"create_err", "create_empty"} THEN << >>
             ELSE TempName(root, Name(t), id)
        err == IF fault = "create_err" THEN "err" ELSE "nil"
        chmodErr == IF fault = "chmod_err" THEN "err" ELSE "nil"
        nfin == Len(finalizers[t]) + 1
    IN IF ExpectSuccess(err) THEN Did(TRUE, {}, << >>, << >>)
       ELSE IF NotEqualAborts(Str(f), Str(<< >>)) THEN Did(TRUE, {}, << >>, << >>)
       ELSE IF ExpectSuccess(chmodErr)
       THEN Did(TRUE, { File(f, TRUE, 448, "") },
                << Finalizer(nfin, "osRemoveAll", f) >>, << >>)
       ELSE Did(FALSE, { File(f, TRUE, mode, "") },
                << Finalizer(nfin, "osRemoveAll", f) >>, f)

\* T.TempDirMode(mode) after RootTempDir() returned root; fault is the step
\* that fails: "create_err" (ioutilTempDir returns an error), "create_empty"
\* (it returns "" and no error), "chmod_err", or "none".
TempDirMode(t, root, mode, fault, id) ==
    LET f == IF fault \in {"create_err", "create_empty"} THEN << >>
             ELSE TempName(root, Name(t), id)
        err == IF fault = "create_err" THEN "err" ELSE "nil"
        chmodErr == IF fault = "chmod_err" THEN "err" ELSE "nil"
        nfin == Len(finalizers[t]) + 1
    IN IF ExpectSuccess(err) THEN Did(TRUE, {}, << >>, << >>)
       ELSE IF NotEqualAborts(Str(f), Str(<< >>)) THEN Did(TRUE, {}, << >>, << >>)
       ELSE IF ExpectSuccess(chmodErr)
       THEN Did(TRUE, { File(f, TRUE, 448, "") }, << >>, << >>)
       ELSE Did(FALSE, { File(f, TRUE, mode, "") },
                << Finalizer(nfin, "osRemoveAll", f) >>, f)

\* T.TempFileMode(mode) likewise; "create_empty" is ioutilTempFile
\* returning a nil handle and no error.
TempFileMode(t, root, mode, fault, id) ==
    LET name == IF fault \in {"create_err", "create_empty"} THEN << >>
                ELSE TempName(root, Name(t), id)
        f == IF fault \in {"create_err", "create_empty"} THEN Handle(NilPtr)
             ELSE Handle(id)
        err == IF fault = "create_err" THEN "err" ELSE "nil"
        chmodErr == IF fault = "chmod_err" THEN "err" ELSE "nil"
        nfin == Len(finalizers[t]) + 1
    IN IF ExpectSuccess(err) THEN Did(TRUE, {}, << >>, << >>)
       ELSE IF NotEqualAborts(f, NilIface) THEN Did(TRUE, {}, << >>, << >>)
       ELSE IF ExpectSuccess(chmodErr)
       THEN Did(TRUE, { File(name, FALSE, 384, "") }, << >>, << >>)
       ELSE Did(FALSE, { File(name, FALSE, mode, "") },
                << Finalizer(nfin, "osRemove", name) >>, name)

\* T.WriteTempFileMode(contents, mode): TempFileMode, io.WriteString and
\* Close; "write_err" and "close_err" are the failures of the last two.
WriteTempFileMode(t, root, contents, mode, fault, id) ==
    LET made1 == TempFileMode(t, root, mode, fault, id)
        name == made1.value
        writeErr == IF fault = "write_err" THEN "err" ELSE "nil"
        closeErr == IF fault = "close_err" THEN "err" ELSE "nil"
    IN IF made1.aborted THEN made1
       ELSE IF ExpectSuccess(writeErr)
       THEN Did(TRUE, made1.files, made1.fins, << >>)
       ELSE IF ExpectSuccess(closeErr)
       THEN Did(TRUE, { File(name, FALSE, mode, contents) }, made1.fins, << >>)
       ELSE Did(FALSE, { File(name, FALSE, mode, contents) }, made1.fins, name)

\* The functions that create a temporary file or directory, the mode each
\* is called with and the steps that can fail in each.  TempDir, TempFile
\* and WriteTempFile pass the default modes; the modes passed to the *Mode
\* functions are 0715 and 0614.
DirFns == {"TempDir", "TempDirMode"}
FileFns == {"TempFile", "TempFileMode"}
WriteFns == {"WriteTempFile", "WriteTempFileMode"}
CreateFns == DirFns \cup FileFns \cup WriteFns

ModeOf(fn) ==
    CASE fn = "TempDir" -> DefaultDirMode
      [] fn = "TempDirMode" -> 461
      [] fn \in {"TempFile", "WriteTempFile"} -> DefaultFileMode
      [] fn \in {"TempFileMode", "WriteTempFileMode"} -> 396

FaultsOf(fn) ==
    {"none", "create_err", "create_empty", "chmod_err"}
        \cup (IF fn \in WriteFns THEN {"write_err", "close_err"} ELSE {})

\* What a call of fn does once RootTempDir() has returned root.
Create(t, fn, root, fault, id) ==
    CASE fn \in DirFns -> TempDirMode(t, root, ModeOf(fn), fault, id)
      [] fn \in FileFns -> TempFileMode(t, root, ModeOf(fn), fault, id)
      [] fn \in WriteFns ->
            WriteTempFileMode(t, root, "contents", ModeOf(fn), fault, id)

\* Number of calls made so far, by the tests 1..n, that create a file or
\* directory: those that have named theirs and those on their way there.
RECURSIVE CreatesUpTo(_)
CreatesUpTo(n) ==
    IF n = 0 THEN 0
    ELSE CreatesUpTo(n - 1) + (nextId[n] - 1)
         + (IF call[n].fn \in CreateFns /\ call[n].state = "running" THEN 1 ELSE 0)

Creates == CreatesUpTo(NumTests)

\* The tests run while the parent process is in its main program.
Running(t) == ppc["parent"] = "main"

\* t.Fatalf inside a call: the test's goroutine is ended (runtime.Goexit).
Abort(t, fault) ==
    /\ tpc' = [tpc EXCEPT ![t] = "aborted"]
    /\ call' = [call EXCEPT ![t].fault = fault, ![t].state = "aborted"]

\* A test calls T.RootTempDir(), or one of the functions that create a
\* temporary file or directory, which call it first.
TempCall(t) ==
    /\ Running(t) /\ tpc[t] = "idle" /\ calls < MaxCalls
    /\ \E fn \in CreateFns \cup {"RootTempDir"} :
          /\ fn \in CreateFns => Creates < MaxCreates
          /\ call' = [call EXCEPT ![t] =
                         CallOf(fn, IF fn \in CreateFns THEN ModeOf(fn) ELSE 0)]
    /\ tpc' = [tpc EXCEPT ![t] = "once"]
    /\ calls' = calls + 1
    /\ UNCHANGED << osArgs, stdin, ppc, exits, reads, removes, fs,
                    testLibRootDirOnce, testLibRootDir, testLibRootDirStdin,
                    initFault, roots, spawned, finalizers, fin, ran, made, nextId >>
    /\ UNCHANGED << equalVars, tryVars, finishes >>

\* (variant: no mutex, a caller does not wait for the running initializer)
OnceBlocks_never(state) == FALSE

\* sync.Once.Do blocks a caller while another one runs the function.
OnceBlocks(state) == state = "running"

\* (variant: a Once that forgets a function that did not return)
OnceAfterAbort_fresh == "fresh"

\* The Once after its function was left through runtime.Goexit (t.Fatalf):
\* Do marks it done in a deferred call, which runs all the same.
OnceAfterAbort == "done"

\* (variant: a Once that sets its flag before it calls the function)
OnceEntered_done == "done"

\* The Once while the first caller runs the function: Do holds its mutex and
\* the done flag is still clear.
OnceEntered == "running"

\* testLibRootDirOnce.Do(func): return at once when the function has run,
\* run it when it has not, wait while another test runs it.
OnceDo(t) ==
    /\ Running(t) /\ tpc[t] = "once"
    /\ ~OnceBlocks(testLibRootDirOnce)
    /\ IF testLibRootDirOnce = "done"
       THEN /\ tpc' = [tpc EXCEPT ![t] = "after"]
            /\ UNCHANGED testLibRootDirOnce
       ELSE /\ tpc' = [tpc EXCEPT ![t] = "mkroot"]
            /\ testLibRootDirOnce' = OnceEntered
    /\ UNCHANGED << osArgs, stdin, ppc, exits, reads, removes, fs, testLibRootDir,
                    testLibRootDirStdin, initFault, roots, spawned, call,
                    finalizers, fin, ran, made, calls, nextId >>
    /\ UNCHANGED << equalVars, tryVars, finishes >>

\* The function run once, first part: ioutilTempDir("", "golang-testlib"),
\* t.NotEqual(testLibRootDir, ""), t.ExpectSuccess(err) and the chmod to
\* 0777.  An abort inside Do leaves the Once done.
InitCreate(t) ==
    /\ Running(t) /\ tpc[t] = "mkroot"
    /\ \E fault \in {"none", "tempdir_err", "chmod_err"} :
          LET dir == IF fault = "tempdir_err" THEN << >>
                     ELSE TempName(<< >>, << "g" >>, Cardinality(roots) + 1)
              err == IF fault = "tempdir_err" THEN "err" ELSE "nil"
              chmodErr == IF fault = "chmod_err" THEN "err" ELSE "nil"
          IN /\ testLibRootDir' = dir
             /\ IF NotEqualAborts(Str(dir), Str(<< >>)) \/ ExpectSuccess(err)
                THEN /\ Abort(t, fault)
                     /\ initFault' = fault
                     /\ testLibRootDirOnce' = OnceAfterAbort
                     /\ UNCHANGED << fs, roots >>
                ELSE /\ roots' = roots \cup { dir }
                     /\ IF ExpectSuccess(chmodErr)
                        THEN /\ fs' = fs \cup { File(dir, TRUE, 448, "") }
                             /\ Abort(t, fault)
                             /\ initFault' = fault
                             /\ testLibRootDirOnce' = OnceAfterAbort
                        ELSE /\ fs' = fs \cup { File(dir, TRUE, RootMode, "") }
                             /\ tpc' = [tpc EXCEPT ![t] = "spawn"]
                             /\ UNCHANGED << call, initFault, testLibRootDirOnce >>
    /\ UNCHANGED << osArgs, stdin, ppc, exits, reads, removes,
                    testLibRootDirStdin, spawned, finalizers, fin, ran, made,
                    calls, nextId >>
    /\ UNCHANGED << equalVars, tryVars, finishes >>

\* The function run once, second part: os.Pipe(), cmd.Start() of the
\* clean-up process on the pipe's read end, reader.Close().
InitSpawn(t) ==
    /\ Running(t) /\ tpc[t] = "spawn"
    /\ \E fault \in {"none", "pipe_err", "start_err", "close_err"} :
          /\ testLibRootDirStdin' = IF fault = "pipe_err" THEN "nil" ELSE "open"
          /\ IF fault \in {"pipe_err", "start_err"}
             THEN UNCHANGED << osArgs, stdin, ppc, spawned >>
             ELSE /\ osArgs' = [osArgs EXCEPT !["child"] =
                        << osArgs["parent"][1], testInterceptorArg, testLibRootDir >>]
                  /\ stdin' = [stdin EXCEPT !["child"] = "open"]
                  /\ ppc' = [ppc EXCEPT !["child"] = "init"]
                  /\ spawned' = spawned + 1
          /\ IF fault # "none"
             THEN Abort(t, fault) /\ initFault' = fault
             ELSE /\ tpc' = [tpc EXCEPT ![t] = "after"]
                  /\ initFault' = "none"
                  /\ UNCHANGED call
          /\ testLibRootDirOnce' = IF fault # "none" THEN OnceAfterAbort ELSE "done"
    /\ UNCHANGED << exits, reads, removes, fs, testLibRootDir, roots, finalizers,
                    fin, ran, made, calls, nextId >>
    /\ UNCHANGED << equalVars, tryVars, finishes >>

\* RootTempDir() has returned testLibRootDir: it is the value of a call of
\* RootTempDir; the other functions go on to create their file or
\* directory in it, set its mode, register the finalizer and return.
AfterRoot(t) ==
    /\ Running(t) /\ tpc[t] = "after"
    /\ IF call[t].fn = "RootTempDir"
       THEN /\ call' = [call EXCEPT ![t].fault = "none", ![t].state = "returned",
                                    ![t].value = testLibRootDir]
            /\ tpc' = [tpc EXCEPT ![t] = "idle"]
            /\ UNCHANGED << fs, finalizers, made, nextId >>
       ELSE \E fault \in FaultsOf(call[t].fn) :
              /\ fault \in {"create_err"} \/ CanCreateIn(testLibRootDir)
              /\ LET did == Create(t, call[t].fn, testLibRootDir, fault, nextId[t])
                 IN /\ fs' = { e \in fs : \A n \in did.files : n.path # e.path }
                               \cup did.files
                    /\ finalizers' = [finalizers EXCEPT ![t] = @ \o did.fins]
                    /\ nextId' = [nextId EXCEPT ![t] = @ + 1]
                    /\ IF did.aborted
                       THEN Abort(t, fault) /\ UNCHANGED made
                       ELSE /\ call' = [call EXCEPT ![t].fault = fault,
                                                    ![t].state = "returned",
                                                    ![t].value = did.value]
                            /\ tpc' = [tpc EXCEPT ![t] = "idle"]
                            /\ made' = [made EXCEPT ![t] = @ \cup { did.value }]
    /\ UNCHANGED << osArgs, stdin, ppc, exits, reads, removes, testLibRootDirOnce,
                    testLibRootDir, testLibRootDirStdin, initFault, roots, spawned,
                    fin, ran, calls >>
    /\ UNCHANGED << equalVars, tryVars, finishes >>

\* T.AddFinalizer(f), f a function of the test's own.
AddFinalizer(t) ==
    /\ Running(t) /\ tpc[t] = "idle" /\ calls < MaxCalls
    /\ finalizers' = [finalizers EXCEPT ![t] =
                         Append(@, Finalizer(Len(@) + 1, "func", << >>))]
    /\ call' = [call EXCEPT ![t] =
                   [CallOf("AddFinalizer", 0) EXCEPT !.fault = "none", !.state = "returned"]]
    /\ calls' = calls + 1
    /\ UNCHANGED << osArgs, stdin, ppc, exits, reads, removes, fs,
                    testLibRootDirOnce, testLibRootDir, testLibRootDirStdin,
                    initFault, roots, spawned, tpc, fin, ran, made, nextId >>
    /\ UNCHANGED << equalVars, tryVars, finishes >>

\* T.Finish() is called, by the test or, deferred, while an abort unwinds
\* the test's goroutine:  for i := len(t.finalizers) - 1; ...
FinishCall(t) ==
    /\ Running(t) /\ tpc[t] \in {"idle", "aborted"} /\ calls < MaxCalls
    /\ call' = [call EXCEPT ![t] =
                   [CallOf("Finish", 0) EXCEPT
                       !.state = IF tpc[t] = "aborted" THEN "unwinding" ELSE "running"]]
    /\ tpc' = [tpc EXCEPT ![t] = "finish"]
    /\ fin' = [fin EXCEPT ![t] = Len(finalizers[t])]
    /\ ran' = [ran EXCEPT ![t] = << >>]
    /\ calls' = calls + 1
    /\ finishes' = [finishes EXCEPT ![t] = @ + 1]
    /\ UNCHANGED << osArgs, stdin, ppc, exits, reads, removes, fs,
                    testLibRootDirOnce, testLibRootDir, testLibRootDirStdin,
                    initFault, roots, spawned, finalizers, made, nextId >>
    /\ UNCHANGED << equalVars, tryVars >>

\* (variant: the loop runs upwards)
FinishIndex_forward(i, n) == n + 1 - i

\* The finalizer the loop of Finish calls when its index is i (counted
\* from 1) and the list holds n: t.finalizers[i].
FinishIndex(i, n) == i

\* The files after finalizer f ran; its osRemove / osRemoveAll returned err,
\* which the finalizer does not look at.
AfterFinalizer(f, err) ==
    IF err # "nil" THEN fs
    ELSE CASE f.kind = "osRemoveAll" -> RemoveAll(fs, f.path)
           [] f.kind = "osRemove" -> Remove(fs, f.path)
           [] OTHER -> fs

\* (variant: a Finish that empties the list once it has run it)
AfterFinish_cleared(list) == << >>

\* t.finalizers when Finish returns: the loop only reads the slice.
AfterFinish(list) == list

\* One round of the loop of Finish: call the finalizer and step the index,
\* or leave the loop and return.
FinishStep(t) ==
    /\ Running(t) /\ tpc[t] = "finish"
    /\ IF fin[t] >= 1
       THEN LET f == finalizers[t][FinishIndex(fin[t], Len(finalizers[t]))]
            IN /\ \E err \in (IF f.kind = "func" THEN {"nil"} ELSE {"nil", "err"}) :
                     /\ fs' = AfterFinalizer(f, err)
                     /\ ran' = [ran EXCEPT ![t] = Append(@, [id |-> f.id, err |-> err])]
               /\ fin' = [fin EXCEPT ![t] = @ - 1]
               /\ UNCHANGED << tpc, call, finalizers >>
       ELSE /\ tpc' = [tpc EXCEPT ![t] =
                          IF call[t].state = "unwinding" THEN "ended" ELSE "idle"]
            /\ call' = [call EXCEPT ![t].fault = "none", ![t].state = "returned"]
            /\ finalizers' = [finalizers EXCEPT ![t] = AfterFinish(@)]
            /\ UNCHANGED << fs, ran, fin >>
    /\ UNCHANGED << osArgs, stdin, ppc, exits, reads, removes, testLibRootDirOnce,
                    testLibRootDir, testLibRootDirStdin, initFault, roots, spawned,
                    made, calls, nextId >>
    /\ UNCHANGED << equalVars, tryVars, finishes >>

\* The test binary is started the usual way: no arguments of interest, its
\* standard input open.
InitTemp ==
    /\ Launched(<< "argv0" >>, "open", "init", InitialFiles)
    /\ NoComparison
    /\ NoTryUntil

NextTemp ==
    \/ \E p \in Procs : ProcInit(p)
    \/ \E p \in Procs : ProcRead(p)
    \/ \E p \in Procs : ProcRemove(p)
    \/ ParentExit
    \/ \E t \in Tests : TempCall(t)
    \/ \E t \in Tests : OnceDo(t)
    \/ \E t \in Tests : InitCreate(t)
    \/ \E t \in Tests : InitSpawn(t)
    \/ \E t \in Tests : AfterRoot(t)
    \/ \E t \in Tests : AddFinalizer(t)
    \/ \E t \in Tests : FinishCall(t)
    \/ \E t \in Tests : FinishStep(t)

SpecTemp == InitTemp /\ [][NextTemp]_vars

\* The watchdog is a process of its own: the operating system keeps running
\* it whatever becomes of the process that started it.
SpecTempLive ==
    /\ SpecTemp
    /\ WF_vars(ProcInit("child"))
    /\ WF_vars(ProcRead("child"))
    /\ WF_vars(ProcRemove("child"))

\* ---------------------------------------------------------------- TryUntil

\* The clock runs from 0 to MaxTime; timeouts run from -1 to MaxTimeout; a
\* call makes MaxPolls polls at most.
MaxTime == 4
MaxTimeout == 2
MaxPolls == 2

\* The desc arguments of the calls.
Descs == { << >>, << "prefix" >>, << "a", "b" >> }

\* strings.Join(elems, sep), as the sequence of the pieces joined.
RECURSIVE Join(_, _)
Join(elems, sep) ==
    IF Len(elems) = 0 THEN << >>
    ELSE IF Len(elems) = 1 THEN << elems[1] >>
    ELSE << elems[1], sep >> \o Join(Tail(elems), sep)

\* prefix := "";  if len(desc) > 0 { prefix = strings.Join(desc, " ") + ": " }
Prefix(d) == IF Len(d) > 0 THEN Join(d, " ") \o << ": " >> ELSE << >>

\* fmt.Sprintf("%sTimeout after %s", prefix, timeout), piece by piece.
TimeoutMessage(prefix, d) == prefix \o << "Timeout after ", ToString(d) >>

\* (variant: the deadline itself still counts)
Before_orEqual(a, b) == a <= b

\* time.Time.Before
Before(a, b) == a < b

\* A poll that began at time b and has not returned.
PollBegun(b) == [began |-> b, ended |-> b, result |-> FALSE, done |-> FALSE]

\* Time passes while the call runs: between any two steps and during a
\* poll.
Tick ==
    /\ tryPc \in {"call", "test", "poll", "yield"}
    /\ now < MaxTime
    /\ now' = now + 1
    /\ UNCHANGED << timeout, tryDesc, end, tryPc, polls, fatals >>
    /\ UNCHANGED << equalVars, tempVars >>

\* end := time.Now().Add(timeout)
TryStart ==
    /\ tryPc = "call"
    /\ end' = now + timeout
    /\ tryPc' = "test"
    /\ UNCHANGED << now, timeout, tryDesc, polls, fatals >>
    /\ UNCHANGED << equalVars, tempVars >>

\* for time.Now().Before(end) { ... }  and, the loop left,
\* t.Fatalf("%sTimeout after %s", prefix, timeout)
TryTest ==
    /\ tryPc = "test"
    /\ IF Before(now, end)
       THEN /\ Len(polls) < MaxPolls
            /\ polls' = Append(polls, PollBegun(now))
            /\ tryPc' = "poll"
            /\ UNCHANGED fatals
       ELSE /\ fatals' = Append(fatals, TimeoutMessage(Prefix(tryDesc), timeout))
            /\ tryPc' = "aborted"
            /\ UNCHANGED polls
    /\ UNCHANGED << now, timeout, tryDesc, end >>
    /\ UNCHANGED << equalVars, tempVars >>

\* if f() { return }
TryPoll ==
    /\ tryPc = "poll"
    /\ \E r \in BOOLEAN :
          /\ polls' = [polls EXCEPT ![Len(polls)] =
                           [began |-> @.began, ended |-> now, result |-> r, done |-> TRUE]]
          /\ tryPc' = IF r THEN "returned" ELSE "yield"
    /\ UNCHANGED << now, timeout, tryDesc, end, fatals >>
    /\ UNCHANGED << equalVars, tempVars >>

\* runtime.Gosched()
TryYield ==
    /\ tryPc = "yield"
    /\ tryPc' = "test"
    /\ UNCHANGED << now, timeout, tryDesc, end, polls, fatals >>
    /\ UNCHANGED << equalVars, tempVars >>

\* A test calls TryUntil(f, timeout, desc...) at some time.
InitTry ==
    /\ now \in 0..1
    /\ timeout \in (-1)..MaxTimeout
    /\ tryDesc \in Descs
    /\ end = 0
    /\ tryPc = "call"
    /\ polls = << >>
    /\ fatals = << >>
    /\ NoComparison
    /\ NoProcess

NextTry == Tick \/ TryStart \/ TryTest \/ TryPoll \/ TryYield

SpecTry == InitTry /\ [][NextTry]_vars

\* ------------------------------------------------ claims: test scope, files

\* The ids n, n-1, ..., n-k+1: the last k of n finalizers, latest first.
LastFirst(n, k) == [i \in 1..k |-> n + 1 - i]

\* The finalizers the running or latest Finish of test t has called, in the
\* order of the calls.
RanIds(t) == [i \in 1..Len(ran[t]) |-> ran[t][i].id]

\* C14: Finish runs the finalizers of its test in the reverse of the order
\* they were registered in, each one exactly once per call of Finish: while
\* Finish runs, those run so far are the latest registered, latest first,
\* and when Finish has returned they are all of them.
C14_FinishReverseOnce ==
    \A t \in Tests :
        call[t].fn = "Finish" =>
            /\ Len(ran[t]) <= Len(finalizers[t])
            /\ RanIds(t) = LastFirst(Len(finalizers[t]), Len(ran[t]))
            /\ call[t].state = "returned" => Len(ran[t]) = Len(finalizers[t])

\* A Finish that returned after running two finalizers or more, one of them
\* registered by the library.
C14_Witness ==
    \E t \in Tests :
        /\ call[t].fn = "Finish" /\ call[t].state = "returned"
        /\ Len(ran[t]) >= 2
        /\ \E i \in 1..Len(finalizers[t]) : finalizers[t][i].kind # "func"

\* The call of test t is one of the creating functions and has returned.
Created(t) == call[t].fn \in CreateFns /\ call[t].state = "returned"

\* The resource a returned call of test t names exists as the kind of file
\* the function makes and with the mode asked for, the default mode for
\* TempDir (0755), TempFile and WriteTempFile (0644).
ExistsAsAsked(t) ==
    /\ Exists(call[t].value)
    /\ Entry(call[t].value).dir = (call[t].fn \in DirFns)
    /\ Entry(call[t].value).mode = call[t].mode
    /\ call[t].fn = "TempDir" => Entry(call[t].value).mode = DefaultDirMode
    /\ call[t].fn \in {"TempFile", "WriteTempFile"} =>
           Entry(call[t].value).mode = DefaultFileMode

\* The finalizer registered for path by test t.
FinalizerOf(t, path) ==
    CHOOSE i \in 1..Len(finalizers[t]) : finalizers[t][i].path = path

\* The latest Finish of test t called the removal of path and it succeeded.
Removed(t, path) ==
    \E i \in 1..Len(ran[t]) :
        ran[t][i].id = FinalizerOf(t, path) /\ ran[t][i].err = "nil"

\* Finish of test t has run to its end.
Finished(t) == call[t].fn = "Finish" /\ call[t].state = "returned"

CreationFaults == {"create_err", "create_empty", "chmod_err"}

\* C16: a call of TempDirMode or TempFileMode (directly or through TempDir,
\* TempFile, WriteTempFile, WriteTempFileMode) in which the creation
\* returned an error, or an empty name / nil handle, or the chmod failed,
\* has aborted the test: it returned nothing and registered no finalizer
\* for what it made, and the test makes no further step of its own.
C16_CreationFailureAborts ==
    \A t \in Tests :
        call[t].fn \in CreateFns /\ call[t].fault \in CreationFaults =>
            /\ call[t].state = "aborted"
            /\ call[t].value = << >>
            /\ tpc[t] = "aborted"
            /\ \A i \in 1..Len(finalizers[t]) :
                   finalizers[t][i].path #
                       TempName(testLibRootDir, Name(t), nextId[t] - 1)

\* TempFileMode aborted because the chmod of the file it had created failed.
C16_Witness ==
    \E t \in Tests :
        /\ call[t].fn = "TempFileMode" /\ call[t].fault = "chmod_err"
        /\ call[t].state = "aborted"
        /\ \E e \in fs : Under(e.path, testLibRootDir) /\ ~e.dir

\* RootTempDir() has returned to test t: in a call of its own, or inside
\* one of the creating functions, which goes on with the path.
Obtained(t) ==
    \/ tpc[t] = "after"
    \/ call[t].fn = "RootTempDir" /\ call[t].state = "returned"

\* The path RootTempDir() returned to test t.
RootOf(t) == IF tpc[t] = "after" THEN testLibRootDir ELSE call[t].value

\* C17 (as stated): whatever the interleaving of the tests' first calls, a
\* test that RootTempDir has returned to finds exactly one Temp Root
\* directory created and exactly one watchdog spawned, and all tests get
\* the same path.
C17_ExactlyOneRoot ==
    \A t \in Tests :
        Obtained(t) =>
            /\ Cardinality(roots) = 1
            /\ spawned = 1
            /\ RootOf(t) \in roots
            /\ \A u \in Tests : Obtained(u) => RootOf(u) = RootOf(t)

\* C17 (amended): whatever the interleaving, at most one Temp Root
\* directory is created and at most one watchdog spawned, all tests that
\* RootTempDir returns to get the same path, and when no step of the
\* one-time initialization failed there is exactly one directory, which is
\* that path, and exactly one watchdog.
C17_AtMostOneRoot ==
    /\ Cardinality(roots) <= 1
    /\ spawned <= 1
    /\ \A t \in Tests :
          Obtained(t) =>
              /\ testLibRootDirOnce = "done"
              /\ RootOf(t) = testLibRootDir
              /\ \A u \in Tests : Obtained(u) => RootOf(u) = RootOf(t)
              /\ initFault = "none" =>
                     /\ Cardinality(roots) = 1
                     /\ spawned = 1
                     /\ RootOf(t) \in roots

\* Both tests called RootTempDir while the initialization had not yet
\* completed (each call was the test's first) and both have the one root.
C17_Witness ==
    /\ \A t \in Tests :
          /\ call[t].fn = "RootTempDir" /\ call[t].state = "returned"
          /\ call[t].value \in roots
    /\ calls = NumTests
    /\ spawned = 1

\* The process that runs the tests has ended.
ParentEnded == ppc["parent"] = "exited"

\* No Temp Root directory exists (any more).
RootGone == \A r \in roots : ~Exists(r)

\* C18 (as stated): once the process has ended, in whatever way, at any
\* point after RootTempDir was called, the Temp Root directory is
\* eventually gone.
C18_RootEventuallyRemoved ==
    (ParentEnded /\ testLibRootDirOnce # "fresh") ~> RootGone

\* The watchdog has exited: with 0 after removing the root, or with 2 or 3
\* after the read of its input or the removal failed.
WatchdogDone ==
    \/ /\ exits["child"] = << 0 >>
       /\ removes["child"] = << [path |-> testLibRootDir, err |-> "nil"] >>
       /\ RootGone
    \/ exits["child"] = << 2 >> /\ removes["child"] = << >>
    \/ /\ exits["child"] = << 3 >>
       /\ removes["child"] = << [path |-> testLibRootDir, err |-> "err"] >>

\* C18 (amended): once the process has ended, in whatever way, at any point
\* after the watchdog was started, the watchdog eventually exits, and it
\* has then removed the Temp Root directory unless reading its input or the
\* removal failed.
C18_WatchdogEventuallyDone == (ParentEnded /\ spawned > 0) ~> WatchdogDone

\* The process ended while a test it had made a directory for had not run
\* Finish, and the watchdog removed the root and all below it.
C18_Witness ==
    /\ ParentEnded
    /\ exits["child"] = << 0 >>
    /\ roots # {} /\ RootGone
    /\ \E t \in Tests :
          /\ Created(t)
          /\ Under(call[t].value, testLibRootDir) /\ ~Exists(call[t].value)

\* ----------------------------------------------- claims: initRootTempDir

\* initRootTempDir has returned or ended the process p.
InitOver(p) == ppc[p] \in {"main", "exited"}

\* What initRootTempDir did in process p: the exit codes it asked for, the
\* number of reads of its input and its calls of osRemoveAll.
Effects(p) == << exits[p], reads[p], removes[p] >>

\* C19: initRootTempDir does nothing (no exit, no read, no removal) unless
\* it has three arguments, the second the sentinel; else it exits with 1
\* when the path fails the guard (no read, no removal), with 2 when the
\* read of its input fails (no removal), with 3 when the removal fails and
\* with 0 when it succeeds, and it asks for the exit once.
C19_EntryProtocol ==
    \A p \in Procs :
        LET a == osArgs[p]
            path == a[3]
        IN /\ Len(exits[p]) <= 1
           /\ InitOver(p) /\ ~Intercepts(a) =>
                  ppc[p] = "main" /\ Effects(p) = << << >>, 0, << >> >>
           /\ InitOver(p) /\ Intercepts(a) =>
                  /\ ppc[p] = "exited"
                  /\ Len(exits[p]) = 1
                  /\ IF ~GuardPasses(a)
                     THEN Effects(p) = << << 1 >>, 0, << >> >>
                     ELSE IF stdin[p] = "err"
                     THEN Effects(p) = << << 2 >>, 1, << >> >>
                     ELSE /\ stdin[p] = "eof"
                          /\ reads[p] = 1
                          /\ \/ /\ exits[p] = << 3 >>
                                /\ removes[p] = << [path |-> path, err |-> "err"] >>
                             \/ /\ exits[p] = << 0 >>
                                /\ removes[p] = << [path |-> path, err |-> "nil"] >>
                                /\ \A e \in fs : e.path # path /\ ~Under(e.path, path)
           /\ ~InitOver(p) => exits[p] = << >> /\ removes[p] = << >>

\* A process started as the watchdog of a Temp Root that holds a file read
\* its input to the end, removed the root and exited with 0.
C19_Witness ==
    /\ osArgs["parent"] = << "argv0", testInterceptorArg, << "/", "t", "/", "g", "0" >> >>
    /\ Effects("parent") =
           << << 0 >>, 1, << [path |-> << "/", "t", "/", "g", "0" >>, err |-> "nil"] >> >>
    /\ \A e \in fs : ~HasPrefix(e.path, << "/", "t", "/", "g", "0" >>)

\* ------------------------------------------------------- claims: TryUntil

\* The call of TryUntil is over.
TryOver == tryPc \in {"returned", "aborted"}

\* pieces begins with the descriptions, a space between any two of them
\* and ": " after the last.
BeginsWithDescs(pieces, d) ==
    /\ Len(pieces) >= 2 * Len(d)
    /\ \A i \in 1..Len(d) :
          /\ pieces[2 * i - 1] = d[i]
          /\ pieces[2 * i] = IF i = Len(d) THEN ": " ELSE " "

\* The things C20 says in which the deadline plays no part: a poll that
\* returns true is the last poll and the call then returns without failing;
\* the test is aborted at most once, only by a call no poll of which
\* returned true, and the message begins with the descriptions; with a
\* timeout of zero or less there is no poll at all and the call aborts.
TryUntilBasics ==
    /\ \A i \in 1..Len(polls) :
          polls[i].done /\ polls[i].result =>
              i = Len(polls) /\ tryPc = "returned" /\ fatals = << >>
    /\ \A i \in 1..Len(polls) : i < Len(polls) => polls[i].done
    /\ tryPc = "returned" =>
           polls # << >> /\ polls[Len(polls)].done /\ polls[Len(polls)].result
    /\ Len(fatals) = (IF tryPc = "aborted" THEN 1 ELSE 0)
    /\ tryPc = "aborted" => BeginsWithDescs(fatals[1], tryDesc)
    /\ timeout <= 0 => polls = << >> /\ tryPc # "returned"

\* C20 (as stated): the above, and a call no poll of which returned true
\* before the deadline (the time of the call's start plus the timeout)
\* aborts the test.
C20_TryUntilDeadline ==
    /\ TryUntilBasics
    /\ TryOver /\ (\A i \in 1..Len(polls) :
                       ~(polls[i].result /\ polls[i].ended < end))
           => tryPc = "aborted"

\* C20 (amended): the above, and a call none of whose polls begun before
\* the deadline returned true aborts the test; no poll begins at or after
\* the deadline, and the abort comes at or after it.
C20_TryUntilPollsBegunBeforeDeadline ==
    /\ TryUntilBasics
    /\ \A i \in 1..Len(polls) : polls[i].began < end
    /\ TryOver /\ (\A i \in 1..Len(polls) :
                       ~(polls[i].result /\ polls[i].began < end))
           => tryPc = "aborted"
    /\ tryPc = "aborted" => now >= end

\* A call with two descriptions polled twice without success and, the
\* deadline reached, aborted the test.
C20_Witness ==
    /\ tryPc = "aborted"
    /\ Len(polls) = 2
    /\ Len(tryDesc) = 2
    /\ fatals = << << "a", " ", "b", ": ", "Timeout after ", ToString(timeout) >> >>

\* ------------------------------------------ claims: the root and its watchdog

\* The process that runs the tests is alive.
ParentAlive == ppc["parent"] \in {"init", "main"}

\* C21: the watchdog calls the removal only after its read of standard
\* input has returned the end of the stream, which it does only once the
\* process that holds the write end of the pipe has ended: while that
\* process is alive the watchdog has removed nothing and every Temp Root
\* directory made is in place.
C21_RemovalOnlyAfterEOF ==
    /\ removes["child"] # << >> =>
           /\ reads["child"] = 1
           /\ stdin["child"] = "eof"
           /\ ~ParentAlive
    /\ ppc["child"] = "remove" => stdin["child"] = "eof" /\ ~ParentAlive
    /\ ParentAlive =>
           /\ stdin["child"] = "open"
           /\ removes["child"] = << >>
           /\ \A r \in roots : Exists(r)

\* The watchdog waited in its read while the tests ran, saw the end of the
\* stream when the process ended, and then called the removal.
C21_Witness ==
    /\ ~ParentAlive
    /\ reads["child"] = 1
    /\ stdin["child"] = "eof"
    /\ Len(removes["child"]) = 1
    /\ \E t \in Tests : tpc[t] = "ended"

\* C22: the watchdog calls the recursive removal only on paths strictly
\* inside the system's temporary directory: not on that directory itself
\* and not on a path that merely begins with the same characters.
C22_RemovalStrictlyInside ==
    \A p \in Procs :
        \A i \in 1..Len(removes[p]) :
            /\ removes[p][i].path # osTempDir
            /\ Under(removes[p][i].path, osTempDir)

\* The initialization has run to its end without a failure (READY).
Ready == testLibRootDirOnce = "done" /\ initFault = "none"

\* C23: no operation of the process that runs the tests removes the Temp
\* Root directory or closes the write end of the pipe: once the root is
\* ready it is in place, with the write end open, for as long as the
\* process is alive, and a step that removes a root is the watchdog's
\* removal.
C23_OnlyWatchdogRemovesRoot ==
    /\ [](ParentAlive /\ Ready =>
             /\ Exists(testLibRootDir)
             /\ testLibRootDirStdin = "open"
             /\ stdin["child"] = "open")
    /\ [][/\ \A r \in roots :
                Exists(r) /\ ~Exists(r)' =>
                    /\ ~ParentAlive
                    /\ removes'["child"] = << [path |-> r, err |-> "nil"] >>
          /\ testLibRootDirStdin = "open" => testLibRootDirStdin' = "open"]_vars

\* The root is ready, a test has made a directory in it and its Finish
\* has removed that directory again; the process is alive, the root in
\* place and the write end open.
C23_Witness ==
    /\ ParentAlive /\ Ready
    /\ Exists(testLibRootDir) /\ testLibRootDirStdin = "open"
    /\ \E t \in Tests :
          /\ Finished(t)
          /\ \E path \in made[t] : Removed(t, path) /\ ~Exists(path)
          /\ \E i \in 1..Len(finalizers[t]) : finalizers[t][i].kind = "osRemoveAll"

\* ----------------------------------------------- claims: engine, continued

\* The nil flag of a value of one of the kinds that have one.
NilFlag(x) ==
    CASE KindOf(x.typ) \in {"Func", "Map", "Ptr"} -> x.v = 0
      [] KindOf(x.typ) = "Slice" -> x.v.base = 0
      [] KindOf(x.typ) = "Chan" -> x.v.id = 0
      [] OTHER -> FALSE

\* x is the untyped nil, or of one of kinds and its nil flag is set.
NilAmong(x, kinds) == x.typ = "" \/ (KindOf(x.typ) \in kinds /\ NilFlag(x))

\* Call n compared a value with the untyped nil and has returned; the
\* facade then treated the value as nil iff Equal passed, or NotEqual
\* aborted.
AgainstNil(n) == Done(n) /\ CallWant(n).typ = ""

TreatedAsNil(n) ==
    outcome[n] = (IF IsEqualCall(n) THEN "pass" ELSE "fatal")

\* C24 (as stated): the facade treats a value as nil iff it is the untyped
\* nil or a pointer, map, slice or channel whose nil flag is set; values of
\* the other kinds, functions among them, are never treated as nil.
C24_NilKindsWithoutFunc ==
    \A n \in 1..NumCalls :
        AgainstNil(n) =>
            /\ outcome[n] \in {"pass", "fatal"}
            /\ invocations[n] = 0
            /\ TreatedAsNil(n) <=>
                   NilAmong(CallHave(n), {"Ptr", "Map", "Slice", "Chan"})

\* C24 (amended): ... or a pointer, map, slice, channel or function whose
\* nil flag is set; values of the other kinds are never treated as nil.
C24_NilKindsWithFunc ==
    \A n \in 1..NumCalls :
        AgainstNil(n) =>
            /\ outcome[n] \in {"pass", "fatal"}
            /\ invocations[n] = 0
            /\ TreatedAsNil(n) <=>
                   NilAmong(CallHave(n), {"Ptr", "Map", "Slice", "Chan", "Func"})

\* Equal(f, nil) passed for a nil function f, and NotEqual(f, nil) aborted.
C24_Witness ==
    /\ callNo = NumCalls + 1
    /\ want.typ = "" /\ have.typ # "" /\ KindOf(have.typ) = "Func" /\ have.v = 0
    /\ outcome[1] = "pass" /\ outcome[2] = "fatal"

\* The tests that are inside the function passed to Do.
Initializing == { t \in Tests : tpc[t] \in {"mkroot", "spawn"} }

\* What the initialization sets or makes.
initVars ==
    << testLibRootDirOnce, testLibRootDir, testLibRootDirStdin, initFault, roots,
       spawned, osArgs >>

\* C25: the initialization of the Temp Root is attempted at most once, also
\* when the attempt aborts part-way: once it has ended, well or not, the
\* Once is done, no test enters it again, no step changes what it set (no
\* second directory, pipe or watchdog), and every later caller is returned
\* the value it left, be it empty or without a watchdog.
C25_InitAttemptedOnce ==
    /\ [](/\ Cardinality(roots) <= 1 /\ spawned <= 1
          /\ Cardinality(Initializing) <= 1
          /\ Initializing # {} => testLibRootDirOnce = "running"
          /\ initFault # "" => testLibRootDirOnce = "done"
          /\ \A t \in Tests : Obtained(t) => RootOf(t) = testLibRootDir)
    /\ [][testLibRootDirOnce = "done" =>
              /\ UNCHANGED initVars
              /\ \A t \in Tests : tpc'[t] \notin {"mkroot", "spawn"}]_vars

\* The first caller was aborted because the watchdog could not be started;
\* a later caller of RootTempDir was returned the directory all the same,
\* and there is no watchdog.
C25_Witness ==
    /\ initFault = "start_err"
    /\ spawned = 0 /\ Cardinality(roots) = 1
    /\ \E t \in Tests :
          /\ call[t].fn = "RootTempDir" /\ call[t].state = "returned"
          /\ call[t].value = testLibRootDir /\ call[t].value \in roots

\* The keys two maps have in common under which their elements differ.
DifferingKeys(h, w) ==
    { k \in DOMAIN MapContent(h.v) \cap DOMAIN MapContent(w.v) :
          MapContent(h.v)[k] # MapContent(w.v)[k] }

\* The path C26 gives the element under key k of a map at path desc.
BareKeyDesc(desc, k) == desc \o "[" \o Quote(k) \o "]"

\* C26: for a key in both maps the engine recurses with the map's path
\* followed by [key], the quoted key and nothing else: two maps with the
\* same keys that differ under one key only compare equal when the ignore
\* list holds exactly that path, and differences under a key are reported
\* at that path.
C26_MapKeyPath ==
    (/\ IsMapPair /\ have.typ = "map[string]int" /\ Done(1)
     /\ DOMAIN MapContent(have.v) = DOMAIN MapContent(want.v)) =>
        /\ \A k \in DifferingKeys(have, want) :
              \E i \in DOMAIN reason[1] : reason[1][i].desc = BareKeyDesc("", k)
        /\ \A k \in DifferingKeys(have, want) :
              (ignores = << BareKeyDesc("", k) >> /\ DifferingKeys(have, want) = {k})
                  => outcome[1] = "pass" /\ skipped[1] = { BareKeyDesc("", k) }

\* ------------------------------------------------------------------
\* claims: the root and its tests, continued

\* C27: while the one initializer of the Temp Root runs, RootTempDir has
\* returned to no test; there is never more than one initializer; and a
\* caller that finds the initialization finished goes on with the cached
\* path without taking any step of the initialization.
C27_CallersWaitForInit ==
    /\ [](/\ Cardinality(Initializing) <= 1
          /\ Initializing # {} => \A t \in Tests : ~Obtained(t))
    /\ [][\A t \in Tests :
              (tpc[t] = "once" /\ testLibRootDirOnce = "done" /\ tpc'[t] # "once")
                  => tpc'[t] = "after" /\ UNCHANGED initVars]_vars

\* One test runs the initializer, the root made and the watchdog not yet
\* started, while the other has called RootTempDir and is held in Do.
C27_Witness ==
    \E t, u \in Tests :
        /\ tpc[t] = "spawn" /\ tpc[u] = "once"
        /\ call[u].fn = "RootTempDir"
        /\ testLibRootDirOnce = "running"

\* ------------------------------------------------------------------
\* claims: engine, the visited set

\* The entries of a visited map, chain by chain.
Entries(vis) ==
    UNION { { << h, i >> : i \in DOMAIN vis[h] } : h \in DOMAIN vis }

\* What a visited map records: unordered pairs of addresses with a type.
Recorded(vis) ==
    { << {vis[e[1]][e[2]].a1, vis[e[1]][e[2]].a2}, vis[e[1]][e[2]].typ >> :
          e \in Entries(vis) }

\* The pair a pending invocation is about.
PairOf(c) == << {c.have.addr, c.want.addr}, c.want.typ >>

\* The next step of the engine is an invocation that reaches the check of
\* the addresses: not ignored, both values valid, of one type, addressable.
AtAddressCheck ==
    /\ pc = "engine" /\ stack # << >>
    /\ Head(stack).op # "emit"
    /\ Head(stack).depth <= MaxDepth
    /\ Head(stack).desc \notin Range(EngineIgnores)
    /\ Head(stack).have.valid /\ Head(stack).want.valid
    /\ Head(stack).have.typ = Head(stack).want.typ
    /\ CanAddr(Head(stack).have) /\ CanAddr(Head(stack).want)

\* The invocation returned no difference and made no nested invocation.
TreatedAsEqual == stack' = Tail(stack) /\ diffs' = diffs /\ pc' = "engine"

\* C28: within one top-level comparison an addressable pair, the unordered
\* pair of addresses with the type, is descended into at most once: no pair
\* is recorded twice; a recorded pair, in either order, and a pair of
\* identical addresses are treated as equal and leave the visited set as it
\* is; any other pair is recorded when it is descended into; and every
\* top-level call starts with an empty visited set.
C28_PairDescendedOnce ==
    /\ [](/\ Cardinality(Entries(visited)) = Cardinality(Recorded(visited))
          /\ pc = "idle" => visited = << >>)
    /\ [][/\ (pc = "idle" /\ pc' = "engine") => visited' = << >>
          /\ AtAddressCheck =>
                IF Head(stack).have.addr = Head(stack).want.addr
                   \/ PairOf(Head(stack)) \in Recorded(visited)
                THEN TreatedAsEqual /\ visited' = visited
                ELSE pc' = "engine" =>
                        Recorded(visited') =
                            Recorded(visited) \cup { PairOf(Head(stack)) }]_vars

\* The engine, having descended into several pairs, is about to be invoked
\* on one of them again: two distinct addresses, recorded with this type.
C28_Witness ==
    /\ AtAddressCheck
    /\ Head(stack).have.addr # Head(stack).want.addr
    /\ PairOf(Head(stack)) \in Recorded(visited)
    /\ Cardinality(Recorded(visited)) > 1

\* ------------------------------------------------------------------
\* claims: finalizers, continued

\* C29: Finish leaves the finalizer list as it is: no step of a Finish call
\* changes it and no step of any call takes a finalizer off it, so a Finish
\* call that returns, the first of its test or a later one, has run every
\* finalizer on the list, last registered first.
C29_FinishKeepsList ==
    /\ [](\A t \in Tests :
             Finished(t) =>
                 RanIds(t) = LastFirst(Len(finalizers[t]), Len(finalizers[t])))
    /\ [][\A t \in Tests :
             /\ (tpc[t] = "finish" \/ tpc'[t] = "finish")
                   => finalizers'[t] = finalizers[t]
             /\ \A i \in DOMAIN finalizers[t] :
                   /\ i \in DOMAIN finalizers'[t]
                   /\ finalizers'[t][i] = finalizers[t][i]]_vars

\* A test's second call of Finish has returned: the list holds the test's
\* two finalizers and the call ran both.
C29_Witness ==
    \E t \in Tests :
        /\ Finished(t) /\ finishes[t] = 2
        /\ Len(finalizers[t]) = 2
        /\ RanIds(t) = << 2, 1 >>

\* Test t is in TempDirMode or TempFileMode (called directly or through the
\* functions built on them), RootTempDir() has returned to it, and this step
\* takes it through the rest of the function.
Creating(t) ==
    tpc[t] = "after" /\ call[t].fn \in CreateFns /\ tpc'[t] # "after"

\* The name the next creation of test t generates.
NextName(t) == TempName(testLibRootDir, Name(t), nextId[t])

\* The paths the finalizers of all tests remove.
FinalizerPaths ==
    UNION { { finalizers[t][i].path : i \in DOMAIN finalizers[t] } : t \in Tests }

\* The files and directories a test created and no finalizer removes.
Unregistered ==
    { e \in fs :
        /\ e.path \notin FinalizerPaths
        /\ \E t \in Tests : \E id \in 1..(nextId[t] - 1) :
              e.path = TempName(testLibRootDir, Name(t), id) }

\* C30: TempDirMode and TempFileMode register the finalizer only when the
\* creation, the check of its result and the mode change have succeeded: a
\* call that returns has appended exactly one finalizer, the one of the
\* path it returns; a call in which one of the three fails aborts with the
\* list unchanged; when the mode change is what failed the created file or
\* directory exists, and what a test created without a finalizer stays
\* through every step, those of Finish included, but the watchdog's removal.
C30_RegisteredAfterSuccess ==
    /\ [][\A t \in Tests :
             Creating(t) =>
                 /\ tpc'[t] = "idle" =>
                       /\ Len(finalizers'[t]) = Len(finalizers[t]) + 1
                       /\ SubSeq(finalizers'[t], 1, Len(finalizers[t])) = finalizers[t]
                       /\ finalizers'[t][Len(finalizers'[t])].path = call'[t].value
                       /\ call'[t].value = NextName(t)
                 /\ call'[t].fault \in CreationFaults =>
                       /\ tpc'[t] = "aborted"
                       /\ finalizers'[t] = finalizers[t]
                 /\ call'[t].fault = "chmod_err" =>
                       \E e \in fs' : e.path = NextName(t)]_vars
    /\ [][\A e \in Unregistered :
             (\E n \in fs' : n.path = e.path) \/ removes'["child"] # removes["child"]]_vars

\* A test created a directory or file under the Temp Root, the mode change
\* failed, the Finish deferred by the test has run to its end, and what was
\* created is still there.
C30_Witness ==
    \E t \in Tests :
        /\ Finished(t) /\ tpc[t] = "ended"
        /\ finalizers[t] = << >>
        /\ roots # {}
        /\ \E e \in Unregistered :
              e.path = TempName(testLibRootDir, Name(t), 1)

====
